---- MODULE Spec2Model ----
(***************************************************************************)
(* A model of the AirController gesture pipeline: ActionEngine (the        *)
(* dispatcher of engine/actions.py) and MotionEstimator                    *)
(* (engine/motion.py).                                                     *)
(*                                                                         *)
(* Time.  ActionEngine reads time.time() (float seconds).  The model       *)
(* counts wall-clock time in ticks of 0.05 s, the greatest common unit of  *)
(* the cooldowns 0.45 s, 0.20 s and 0.30 s, so these are 9, 4 and 6 ticks. *)
(* Confidences are hundredths (0.82 is 82).  MotionEstimator timestamps    *)
(* are integer milliseconds, as in the code.                               *)
(***************************************************************************)
EXTENDS Integers, Sequences, FiniteSets, TLC

VARIABLES
    mappings,           \* ActionEngine.mappings      (list of rule dicts)
    actions,            \* ActionEngine.actions       (dict: action id -> action dict)
    dynamic_cooldown,   \* ActionEngine.dynamic_cooldown
    last_triggered,     \* ActionEngine.last_triggered (dict: mapping key -> time)
    last_click_time,    \* ActionEngine.gesture_state.last_click_time
    last_scroll_time,   \* ActionEngine.gesture_state.last_scroll_time
    last_dynamic_time,  \* ActionEngine.last_dynamic_time
    clock,              \* the last reading of time.time()
    last_fallback_call, \* the last input call a fallback branch made and saw return
    rec,                \* what the last apply call was given, did and returned
    m_history,          \* MotionEstimator._history (dict: side -> _History)
    m_now,              \* the timestamp_ms of the last update call
    m_seen,             \* per side, the HandState last built for it (never purged)
    m_rec,              \* what the last update call was given and returned
    history_size,       \* GestureRecognizer.history_size
    g_history,          \* GestureRecognizer.history (dict: side -> deque of HandStates)
    g_now,              \* the timestamp_ms of the last frame given to detect_for_frame
    g_rec,              \* what the last detect_for_frame call was given and returned
    s_rec,              \* the landmarks given to detect_simple_gesture and its result
    d_rec,              \* the window given to _detect_dynamic_for_hand and its result
    cursor_calls,       \* how many move_cursor_from_hand calls have been made
    smooth_x,           \* ActionEngine.smooth_x
    smooth_y,           \* ActionEngine.smooth_y
    c_rec               \* what the last move_cursor_from_hand call was given and did

engineVars == <<mappings, actions, dynamic_cooldown, last_triggered,
                last_click_time, last_scroll_time, last_dynamic_time, clock,
                last_fallback_call, rec>>

motionVars == <<m_history, m_now, m_seen, m_rec>>

gestureVars == <<history_size, g_history, g_now, g_rec>>

staticVars == <<s_rec, d_rec>>

cursorVars == <<cursor_calls, smooth_x, smooth_y, c_rec>>

vars == <<engineVars, motionVars, gestureVars, staticVars, cursorVars>>

----------------------------------------------------------------------------
(* Bounds of the model *)

\* time.time() readings run from 0 to MaxClock ticks
MaxClock == 18

\* the clock advances by 0, 1 or 2 steps of AdvanceStep ticks between two apply calls
AdvanceStep == 3
Advances == {0, AdvanceStep, 2 * AdvanceStep}

----------------------------------------------------------------------------
(* Program constants, in ticks of 0.05 s *)

click_cooldown == 9
scroll_cooldown == 4
scroll_amount == 120
DefaultDynamicCooldown == 6
FallbackDynamicCooldown == 6
DefaultMinConfidence == 80

\* mapping.get(k, default) / action.get(k, default) on a dict
Get(d, k, default) == IF k \in DOMAIN d THEN d[k] ELSE default

----------------------------------------------------------------------------
(* Gesture candidates handed to ActionEngine.apply *)

StaticNames == {"PINCH", "OPEN_PALM", "TWO_UP", "TWO_DOWN"}
DynamicNames == {"SWIPE_LEFT", "SWIPE_RIGHT", "SWIPE_UP", "SWIPE_DOWN", "PUSH", "PULL"}

\* GestureCandidate(name, confidence, source)
Cand(n, c) == [name |-> n, confidence |-> c,
               source |-> IF n \in StaticNames THEN "STATIC" ELSE "DYNAMIC"]

\* The candidates the model hands over for the RIGHT and for the LEFT hand: a
\* static gesture carries the recognizer's fixed 0.82, a dynamic one 0.90 or 0.70.
RightCands == {Cand(n, 82) : n \in StaticNames} \cup {Cand(n, 90) : n \in DynamicNames}
LeftCands == {Cand("PINCH", 82), Cand("OPEN_PALM", 82), Cand("SWIPE_LEFT", 90),
              Cand("SWIPE_LEFT", 70)}

\* The gestures dict: side -> candidate, a side without candidate being absent.
GestureDicts ==
    {<<>>}
    \cup {[s \in {"RIGHT"} |-> r] : r \in RightCands}
    \cup {[s \in {"LEFT"} |-> l] : l \in LeftCands}
    \cup {[s \in {"RIGHT", "LEFT"} |-> IF s = "RIGHT" THEN r ELSE l] :
             r \in RightCands, l \in LeftCands}

\* gestures.get(side).name, None when the side has no candidate
NameOf(g, side) == IF side \in DOMAIN g THEN g[side].name ELSE "None"

----------------------------------------------------------------------------
(* Profiles: the JSON documents _load_profile may be given *)

Call(f, a, n) == [fn |-> f, args |-> a, amount |-> n]

ProfilePriority ==
    [mappings |-> <<
        [side |-> "RIGHT", gesture |-> "PINCH", action |-> "click", priority |-> 5],
        [side |-> "LEFT", gesture |-> "SWIPE_LEFT", action |-> "back", priority |-> 3,
         cooldown_s |-> 2],
        [gesture |-> "PINCH", action |-> "combo", priority |-> 5, cooldown_s |-> 3] >>,
     actions |->
        [id \in {"click", "back", "combo"} |->
            CASE id = "click" -> [type |-> "mouse_click", button |-> "left"]
              [] id = "back" -> [type |-> "hotkey", keys |-> <<"alt", "left">>]
              [] id = "combo" -> [type |-> "sequence", steps |-> <<
                                    [type |-> "key", key |-> "f5"],
                                    [type |-> "mouse_click", button |-> "left"],
                                    [type |-> "type_text", text |-> "ok"] >>]]]

ProfileTies ==
    [mappings |-> <<
        [side |-> "LEFT", gesture |-> "PINCH", action |-> "ghost", min_confidence |-> 80],
        [side |-> "RIGHT", gesture |-> "PINCH", action |-> "wheel"],
        [side |-> "LEFT", gesture |-> "SWIPE_LEFT", action |-> "odd", min_confidence |-> 60,
         priority |-> 0, cooldown_s |-> 3] >>,
     actions |->
        [id \in {"wheel", "odd"} |->
            CASE id = "wheel" -> [type |-> "scroll", amount |-> 240]
              [] id = "odd" -> [type |-> "teleport"]],
     global |-> [dynamic_cooldown |-> 4]]

ProfileNoActions ==
    [mappings |-> << [side |-> "RIGHT", gesture |-> "PINCH", action |-> "click"] >>]

ProfileNoMappings ==
    [actions |-> [id \in {"click"} |-> [type |-> "mouse_click", button |-> "right"]]]

\* profile_path: None, a path that does not exist, or a path to one of the documents
ProfileInputs ==
    {[given |-> FALSE, exists |-> FALSE, data |-> <<>>],
     [given |-> TRUE, exists |-> FALSE, data |-> <<>>]}
    \cup {[given |-> TRUE, exists |-> TRUE, data |-> d] :
            d \in {<<>>, ProfilePriority, ProfileTies, ProfileNoActions, ProfileNoMappings}}

\* ActionEngine.__init__ followed by _load_profile: the three loaded fields
LoadProfile(p) ==
    IF ~p.given \/ ~p.exists
    THEN [mappings |-> <<>>, actions |-> <<>>, dynamic_cooldown |-> DefaultDynamicCooldown]
    ELSE [mappings |-> Get(p.data, "mappings", <<>>),
          actions |-> Get(p.data, "actions", <<>>),
          dynamic_cooldown |->
              Get(Get(p.data, "global", <<>>), "dynamic_cooldown", DefaultDynamicCooldown)]

----------------------------------------------------------------------------
(* ActionEngine._execute_action: the external calls an action id makes, in order *)

\* _execute_inline_step(step)
ExecuteInlineStep(step) ==
    LET kind == Get(step, "type", "None") IN
    CASE kind = "sleep" -> << Call("sleep", <<>>, Get(step, "seconds", 2)) >>
      [] kind = "key" -> << Call("press", << Get(step, "key", "space") >>, 0) >>
      [] kind = "hotkey" ->
            IF Get(step, "keys", <<>>) # <<>>
            THEN << Call("hotkey", Get(step, "keys", <<>>), 0) >> ELSE <<>>
      [] kind = "type_text" -> << Call("write", << Get(step, "text", "") >>, 0) >>
      [] kind = "open_url" ->
            IF Get(step, "url", "") # ""
            THEN << Call("open", << Get(step, "url", "") >>, 0) >> ELSE <<>>
      [] OTHER -> <<>>

RECURSIVE ExecuteSteps(_)
ExecuteSteps(steps) ==
    IF steps = <<>> THEN <<>>
    ELSE ExecuteInlineStep(Head(steps)) \o ExecuteSteps(Tail(steps))

\* Mutant of ExecuteAction: an action of unknown type is carried out as a left click
ExecuteActionDefaultClick(action_id) ==
    IF action_id \notin DOMAIN actions \/ DOMAIN actions[action_id] = {}
    THEN <<>>
    ELSE LET action == actions[action_id]
             kind == Get(action, "type", "None") IN
         CASE kind = "scroll" -> << Call("scroll", <<>>, Get(action, "amount", scroll_amount)) >>
           [] kind = "key" -> << Call("press", << Get(action, "key", "space") >>, 0) >>
           [] kind = "hotkey" ->
                IF Get(action, "keys", <<>>) # <<>>
                THEN << Call("hotkey", Get(action, "keys", <<>>), 0) >> ELSE <<>>
           [] kind = "open_url" ->
                IF Get(action, "url", "") # ""
                THEN << Call("open", << Get(action, "url", "") >>, 0) >> ELSE <<>>
           [] kind = "type_text" -> << Call("write", << Get(action, "text", "") >>, 0) >>
           [] kind = "sequence" -> ExecuteSteps(Get(action, "steps", <<>>))
           [] OTHER -> << Call("click", << Get(action, "button", "left") >>, 0) >>

\* _execute_action(action_id)
ExecuteAction(action_id) ==
    IF action_id \notin DOMAIN actions \/ DOMAIN actions[action_id] = {}
    THEN <<>>
    ELSE LET action == actions[action_id]
             kind == Get(action, "type", "None") IN
         CASE kind = "mouse_click" ->
                << Call("click", << Get(action, "button", "left") >>, 0) >>
           [] kind = "scroll" -> << Call("scroll", <<>>, Get(action, "amount", scroll_amount)) >>
           [] kind = "key" -> << Call("press", << Get(action, "key", "space") >>, 0) >>
           [] kind = "hotkey" ->
                IF Get(action, "keys", <<>>) # <<>>
                THEN << Call("hotkey", Get(action, "keys", <<>>), 0) >> ELSE <<>>
           [] kind = "open_url" ->
                IF Get(action, "url", "") # ""
                THEN << Call("open", << Get(action, "url", "") >>, 0) >> ELSE <<>>
           [] kind = "type_text" -> << Call("write", << Get(action, "text", "") >>, 0) >>
           [] kind = "sequence" -> ExecuteSteps(Get(action, "steps", <<>>))
           [] OTHER -> <<>>

----------------------------------------------------------------------------
(* ActionEngine.apply, configured-mapping mode *)

RuleSide(m) == Get(m, "side", "RIGHT")
RuleGesture(m) == Get(m, "gesture", "None")
RuleAction(m) == Get(m, "action", "None")
RuleMinConf(m) == Get(m, "min_confidence", DefaultMinConfidence)
RulePriority(m) == Get(m, "priority", 0)
RuleCooldown(m) == Get(m, "cooldown_s", dynamic_cooldown)

\* f"{side}:{required_name}:{action_id}".  A rule reaches this line only with a
\* side that is a key of the gestures dict and a gesture that is a candidate's
\* name; neither holds a colon, so the string determines the three parts.
MappingKey(m) == <<RuleSide(m), ":", RuleGesture(m), ":", RuleAction(m)>>

\* the two `continue` tests on the candidate (lines 138-142)
RuleMatches(m, g) ==
    /\ RuleSide(m) \in DOMAIN g
    /\ ~(g[RuleSide(m)].name # RuleGesture(m) \/ g[RuleSide(m)].confidence < RuleMinConf(m))

\* Mutant of CooldownElapsed: the rule's own cooldown_s is ignored
CooldownElapsedGlobalOnly(m, now) ==
    ~(now - Get(last_triggered, MappingKey(m), 0) < dynamic_cooldown)

\* Mutant of CooldownElapsed: a key that is not in the table passes the test
CooldownElapsedNeverFiredPasses(m, now) ==
    \/ MappingKey(m) \notin DOMAIN last_triggered
    \/ ~(now - last_triggered[MappingKey(m)] < RuleCooldown(m))

\* the cooldown test (line 145), negated: the rule is not skipped
CooldownElapsed(m, now) ==
    ~(now - Get(last_triggered, MappingKey(m), 0) < RuleCooldown(m))

\* the tuple appended to candidates (line 148)
CandidateItem(m, g) ==
    [priority |-> RulePriority(m), confidence |-> g[RuleSide(m)].confidence,
     mapping_key |-> MappingKey(m), side |-> RuleSide(m), cand |-> g[RuleSide(m)],
     action_id |-> RuleAction(m)]

\* the loop over self.mappings (lines 129-148), from rule i on
RECURSIVE CollectCandidates(_, _, _)
CollectCandidates(i, g, now) ==
    IF i > Len(mappings) THEN <<>>
    ELSE (IF RuleMatches(mappings[i], g) /\ CooldownElapsed(mappings[i], now)
          THEN << CandidateItem(mappings[i], g) >> ELSE <<>>)
         \o CollectCandidates(i + 1, g, now)

\* Mutant of SortKeyGreater: confidence is compared before priority
SortKeyConfidenceFirst(a, b) ==
    \/ a.confidence > b.confidence
    \/ a.confidence = b.confidence /\ a.priority > b.priority

\* key=lambda item: (item[0], item[1]) compared as Python compares tuples
SortKeyGreater(a, b) ==
    \/ a.priority > b.priority
    \/ a.priority = b.priority /\ a.confidence > b.confidence

\* Mutant of InsertSorted: an item goes before the items of equal key (the order
\* a sort followed by a reversal gives)
RECURSIVE InsertSortedBeforeEqual(_, _)
InsertSortedBeforeEqual(x, s) ==
    IF s = <<>> THEN << x >>
    ELSE IF ~SortKeyGreater(Head(s), x) THEN << x >> \o s
    ELSE << Head(s) >> \o InsertSortedBeforeEqual(x, Tail(s))

\* list.sort(key=..., reverse=True) is stable: x goes before the first element
\* whose key is smaller, so behind every element of equal key already placed.
RECURSIVE InsertSorted(_, _)
InsertSorted(x, s) ==
    IF s = <<>> THEN << x >>
    ELSE IF SortKeyGreater(x, Head(s)) THEN << x >> \o s
    ELSE << Head(s) >> \o InsertSorted(x, Tail(s))

RECURSIVE SortCandidates(_)
SortCandidates(c) ==
    IF c = <<>> THEN <<>>
    ELSE InsertSorted(c[Len(c)], SortCandidates(SubSeq(c, 1, Len(c) - 1)))

Text(side, name, conf, tail) == [side |-> side, name |-> name, conf |-> conf, tail |-> tail]

TrackingProfileText == Text("", "Tracking hands (profile mode)", -1, "")
TrackingText == Text("", "Tracking hands", -1, "")

\* What apply does when every external call succeeds: the action ids passed to
\* _execute_action, the external calls made, the debounce state left and the text.
Done(executed, planned, lt, click, scroll, dyn, text) ==
    [executed |-> executed, planned |-> planned, last_triggered |-> lt,
     last_click_time |-> click, last_scroll_time |-> scroll,
     last_dynamic_time |-> dyn, text |-> text]

\* Mutant of Selected: every eligible rule is executed
SelectedAll(sorted) == sorted

\* `_, _, mapping_key, side, cand, action_id = candidates[0]` (line 152): the
\* items of the sorted list that are executed, which is the first one alone
Selected(sorted) == << Head(sorted) >>

\* _execute_action for each selected item, in order (line 153)
RECURSIVE ExecuteSelected(_)
ExecuteSelected(sel) ==
    IF sel = <<>> THEN <<>>
    ELSE ExecuteAction(Head(sel).action_id) \o ExecuteSelected(Tail(sel))

\* Mutant of StampSelected: the dict is replaced by one holding the new stamp only
StampSelectedFresh(sel, lt, now) ==
    IF sel = <<>> THEN lt ELSE (Head(sel).mapping_key :> now)

\* self.last_triggered[mapping_key] = now for each selected item (line 154)
RECURSIVE StampSelected(_, _, _)
StampSelected(sel, lt, now) ==
    IF sel = <<>> THEN lt
    ELSE StampSelected(Tail(sel), (Head(sel).mapping_key :> now) @@ lt, now)

\* Mutant of ApplyConfigured: the key of every candidate that passed its cooldown
\* test is stamped, the losers of the arbitration included
ApplyConfiguredStampAll(g, now) ==
    LET candidates == CollectCandidates(1, g, now) IN
    IF candidates # <<>>
    THEN LET sel == Selected(SortCandidates(candidates))
             win == sel[1] IN
         Done([i \in 1 .. Len(sel) |-> sel[i].action_id], ExecuteSelected(sel),
              StampSelected(candidates, last_triggered, now),
              last_click_time, last_scroll_time, last_dynamic_time,
              Text(win.side, win.cand.name, win.cand.confidence, win.action_id))
    ELSE Done(<<>>, <<>>, last_triggered, last_click_time, last_scroll_time,
              last_dynamic_time, TrackingProfileText)

ApplyConfigured(g, now) ==
    LET candidates == CollectCandidates(1, g, now) IN
    IF candidates # <<>>
    THEN LET sel == Selected(SortCandidates(candidates))
             win == sel[1] IN
         Done([i \in 1 .. Len(sel) |-> sel[i].action_id], ExecuteSelected(sel),
              StampSelected(sel, last_triggered, now),
              last_click_time, last_scroll_time, last_dynamic_time,
              Text(win.side, win.cand.name, win.cand.confidence, win.action_id))
    ELSE Done(<<>>, <<>>, last_triggered, last_click_time, last_scroll_time,
              last_dynamic_time, TrackingProfileText)

----------------------------------------------------------------------------
(* ActionEngine.apply, built-in fallback mode (lines 159-201) *)

\* the key or hotkey of the dynamic branch (lines 185-196)
DynamicCall(right_name) ==
    CASE right_name = "SWIPE_LEFT" -> Call("press", << "left" >>, 0)
      [] right_name = "SWIPE_RIGHT" -> Call("press", << "right" >>, 0)
      [] right_name = "SWIPE_UP" -> Call("press", << "pageup" >>, 0)
      [] right_name = "SWIPE_DOWN" -> Call("press", << "pagedown" >>, 0)
      [] right_name = "PUSH" -> Call("hotkey", << "ctrl", "+" >>, 0)
      [] right_name = "PULL" -> Call("hotkey", << "ctrl", "-" >>, 0)

\* Mutant of FallbackBranch: LEFT PINCH is tested before RIGHT PINCH
FallbackBranchLeftFirst(right_name, left_name) ==
    IF left_name = "PINCH" THEN "LEFT_PINCH"
    ELSE IF right_name = "PINCH" THEN "RIGHT_PINCH"
    ELSE IF right_name = "TWO_UP" THEN "TWO_UP"
    ELSE IF right_name = "TWO_DOWN" THEN "TWO_DOWN"
    ELSE IF right_name = "OPEN_PALM" \/ left_name = "OPEN_PALM" THEN "OPEN_PALM"
    ELSE IF right_name \in {"SWIPE_LEFT", "SWIPE_RIGHT", "SWIPE_UP", "SWIPE_DOWN",
                            "PUSH", "PULL"} THEN "DYNAMIC"
    ELSE "TRACKING"

\* The if/elif chain of lines 160-199: the branch the two names select
FallbackBranch(right_name, left_name) ==
    IF right_name = "PINCH" THEN "RIGHT_PINCH"
    ELSE IF left_name = "PINCH" THEN "LEFT_PINCH"
    ELSE IF right_name = "TWO_UP" THEN "TWO_UP"
    ELSE IF right_name = "TWO_DOWN" THEN "TWO_DOWN"
    ELSE IF right_name = "OPEN_PALM" \/ left_name = "OPEN_PALM" THEN "OPEN_PALM"
    ELSE IF right_name \in {"SWIPE_LEFT", "SWIPE_RIGHT", "SWIPE_UP", "SWIPE_DOWN",
                            "PUSH", "PULL"} THEN "DYNAMIC"
    ELSE "TRACKING"

\* Mutant of FireClick: the click timestamp belongs to the left button; the right
\* click is made whenever it is asked for and leaves the timestamp alone
FireClickLeftButtonOnly(call, now, text) ==
    IF call.args = << "right" >>
    THEN Done(<<>>, << call >>, last_triggered, last_click_time, last_scroll_time,
              last_dynamic_time, text)
    ELSE IF now - last_click_time >= click_cooldown
    THEN Done(<<>>, << call >>, last_triggered, now, last_scroll_time, last_dynamic_time, text)
    ELSE Done(<<>>, <<>>, last_triggered, last_click_time, last_scroll_time,
              last_dynamic_time, text)

\* The guarded body of a branch: when the branch's own timestamp is at least its
\* cooldown old, the call is made and that timestamp, and no other, is set to now.
FireClick(call, now, text) ==
    IF now - last_click_time >= click_cooldown
    THEN Done(<<>>, << call >>, last_triggered, now, last_scroll_time, last_dynamic_time, text)
    ELSE Done(<<>>, <<>>, last_triggered, last_click_time, last_scroll_time,
              last_dynamic_time, text)

\* Mutant of FireScroll: one timestamp shared by clicks and scrolls
FireScrollSharedWithClick(call, now, text) ==
    IF now - last_click_time >= scroll_cooldown
    THEN Done(<<>>, << call >>, last_triggered, now, now, last_dynamic_time, text)
    ELSE Done(<<>>, <<>>, last_triggered, last_click_time, last_scroll_time,
              last_dynamic_time, text)

FireScroll(call, now, text) ==
    IF now - last_scroll_time >= scroll_cooldown
    THEN Done(<<>>, << call >>, last_triggered, last_click_time, now, last_dynamic_time, text)
    ELSE Done(<<>>, <<>>, last_triggered, last_click_time, last_scroll_time,
              last_dynamic_time, text)

FireDynamic(call, now, text) ==
    IF now - last_dynamic_time >= FallbackDynamicCooldown
    THEN Done(<<>>, << call >>, last_triggered, last_click_time, last_scroll_time, now, text)
    ELSE Done(<<>>, <<>>, last_triggered, last_click_time, last_scroll_time,
              last_dynamic_time, text)

\* Mutant of ApplyFallback: the cooldown test is part of the condition of the
\* PINCH and TWO_UP / TWO_DOWN branches, so that a branch inside its cooldown
\* falls through to the next one that matches
ApplyFallbackFallThrough(g, now) ==
    LET right_name == NameOf(g, "RIGHT")
        left_name == NameOf(g, "LEFT")
        click_ready == now - last_click_time >= click_cooldown
        scroll_ready == now - last_scroll_time >= scroll_cooldown
        branch ==
            IF right_name = "PINCH" /\ click_ready THEN "RIGHT_PINCH"
            ELSE IF left_name = "PINCH" /\ click_ready THEN "LEFT_PINCH"
            ELSE IF right_name = "TWO_UP" /\ scroll_ready THEN "TWO_UP"
            ELSE IF right_name = "TWO_DOWN" /\ scroll_ready THEN "TWO_DOWN"
            ELSE FallbackBranch(right_name, left_name)
    IN
    CASE branch = "RIGHT_PINCH" ->
            FireClick(Call("click", << "left" >>, 0), now,
                      Text("RIGHT", "PINCH", g["RIGHT"].confidence, "LEFT CLICK"))
      [] branch = "LEFT_PINCH" ->
            FireClick(Call("click", << "right" >>, 0), now,
                      Text("LEFT", "PINCH", g["LEFT"].confidence, "RIGHT CLICK"))
      [] branch = "TWO_UP" ->
            FireScroll(Call("scroll", <<>>, scroll_amount), now,
                       Text("RIGHT", "TWO UP", g["RIGHT"].confidence, "SCROLL UP"))
      [] branch = "TWO_DOWN" ->
            FireScroll(Call("scroll", <<>>, -scroll_amount), now,
                       Text("RIGHT", "TWO DOWN", g["RIGHT"].confidence, "SCROLL DOWN"))
      [] branch = "OPEN_PALM" ->
            Done(<<>>, <<>>, last_triggered, last_click_time, last_scroll_time,
                 last_dynamic_time, Text("", "OPEN PALM", -1, "NO ACTION"))
      [] branch = "DYNAMIC" ->
            FireDynamic(DynamicCall(right_name), now,
                        Text("RIGHT", right_name, g["RIGHT"].confidence, ""))
      [] OTHER ->
            Done(<<>>, <<>>, last_triggered, last_click_time, last_scroll_time,
                 last_dynamic_time, TrackingText)

ApplyFallback(g, now) ==
    LET right_name == NameOf(g, "RIGHT")
        left_name == NameOf(g, "LEFT")
        branch == FallbackBranch(right_name, left_name)
    IN
    CASE branch = "RIGHT_PINCH" ->
            FireClick(Call("click", << "left" >>, 0), now,
                      Text("RIGHT", "PINCH", g["RIGHT"].confidence, "LEFT CLICK"))
      [] branch = "LEFT_PINCH" ->
            FireClick(Call("click", << "right" >>, 0), now,
                      Text("LEFT", "PINCH", g["LEFT"].confidence, "RIGHT CLICK"))
      [] branch = "TWO_UP" ->
            FireScroll(Call("scroll", <<>>, scroll_amount), now,
                       Text("RIGHT", "TWO UP", g["RIGHT"].confidence, "SCROLL UP"))
      [] branch = "TWO_DOWN" ->
            FireScroll(Call("scroll", <<>>, -scroll_amount), now,
                       Text("RIGHT", "TWO DOWN", g["RIGHT"].confidence, "SCROLL DOWN"))
      [] branch = "OPEN_PALM" ->
            Done(<<>>, <<>>, last_triggered, last_click_time, last_scroll_time,
                 last_dynamic_time, Text("", "OPEN PALM", -1, "NO ACTION"))
      [] branch = "DYNAMIC" ->
            FireDynamic(DynamicCall(right_name), now,
                        Text("RIGHT", right_name, g["RIGHT"].confidence, ""))
      [] OTHER ->
            Done(<<>>, <<>>, last_triggered, last_click_time, last_scroll_time,
                 last_dynamic_time, TrackingText)

----------------------------------------------------------------------------
(* ActionEngine.apply *)

\* Mutant of ConfiguredMode: the actions table is not looked at
ConfiguredModeMappingsOnly == mappings # <<>>

\* `if self.mappings and self.actions` (line 128)
ConfiguredMode == mappings # <<>> /\ DOMAIN actions # {}

NoText == Text("", "", -1, "")

\* Mutant of Outcome: the timestamp is written before the external call is made
OutcomeStampFirst(d, k) ==
    IF k = 0
    THEN d @@ [calls |-> d.planned, raised |-> FALSE]
    ELSE [d EXCEPT !.text = Text("", "", -1, "")]
         @@ [calls |-> SubSeq(d.planned, 1, k), raised |-> TRUE]

\* The external calls are made one after the other and every write of a debounce
\* timestamp follows the call of its branch (lines 153-154, 163-164, 168-169,
\* 173-174, 178-179, 186-197).  When call number k raises, the exception leaves
\* apply at once: the calls up to k were made, nothing after the call has run and
\* nothing is returned.  k = 0: no call raises.
Outcome(d, k) ==
    IF k = 0
    THEN d @@ [calls |-> d.planned, raised |-> FALSE]
    ELSE [executed |-> d.executed, planned |-> d.planned,
          last_triggered |-> last_triggered, last_click_time |-> last_click_time,
          last_scroll_time |-> last_scroll_time, last_dynamic_time |-> last_dynamic_time,
          text |-> NoText, calls |-> SubSeq(d.planned, 1, k), raised |-> TRUE]

Snapshot == [last_triggered |-> last_triggered, last_click_time |-> last_click_time,
             last_scroll_time |-> last_scroll_time, last_dynamic_time |-> last_dynamic_time]

\* The record of a frame in which apply has not been called
NoRec == [mode |-> "none", now |-> 0, gestures |-> <<>>, executed |-> <<>>,
          calls |-> <<>>, raised |-> FALSE, text |-> NoText, last_call |-> <<>>,
          pre |-> [last_triggered |-> <<>>, last_click_time |-> 0,
                   last_scroll_time |-> 0, last_dynamic_time |-> 0]]

\* apply(gestures) at a clock reading adv ticks after the previous one.  The
\* external call number k raises (k = 0: none does).
Apply(g, adv) ==
    LET now == clock + adv IN
    /\ rec = NoRec
    /\ now <= MaxClock
    /\ \E d \in {IF ConfiguredMode THEN ApplyConfigured(g, now) ELSE ApplyFallback(g, now)} :
       \E k \in 0 .. Len(d.planned) :
       \E o \in {Outcome(d, k)} :
          /\ clock' = now
          /\ last_triggered' = o.last_triggered
          /\ last_click_time' = o.last_click_time
          /\ last_scroll_time' = o.last_scroll_time
          /\ last_dynamic_time' = o.last_dynamic_time
          /\ rec' = [mode |-> IF ConfiguredMode THEN "configured" ELSE "fallback",
                     now |-> now, gestures |-> g, executed |-> o.executed,
                     calls |-> o.calls, raised |-> o.raised, text |-> o.text,
                     last_call |-> last_fallback_call, pre |-> Snapshot]
          /\ last_fallback_call' = IF ~ConfiguredMode /\ ~o.raised /\ o.calls # <<>>
                                   THEN o.calls ELSE last_fallback_call
    /\ UNCHANGED <<mappings, actions, dynamic_cooldown>>
    /\ UNCHANGED <<motionVars, gestureVars, staticVars, cursorVars>>

\* The caller has taken what apply returned (or raised) and goes on to the next
\* frame: the engine's state stays, the record of the call is dropped.
NextFrame ==
    /\ rec # NoRec
    /\ rec' = NoRec
    /\ UNCHANGED <<mappings, actions, dynamic_cooldown, last_triggered, last_click_time,
                   last_scroll_time, last_dynamic_time, clock, last_fallback_call>>
    /\ UNCHANGED <<motionVars, gestureVars, staticVars, cursorVars>>

\* ActionEngine.__init__ with the profile p
EngineInit(p) ==
    /\ mappings = LoadProfile(p).mappings
    /\ actions = LoadProfile(p).actions
    /\ dynamic_cooldown = LoadProfile(p).dynamic_cooldown
    /\ last_triggered = <<>>
    /\ last_click_time = 0
    /\ last_scroll_time = 0
    /\ last_dynamic_time = 0
    /\ clock = 0
    /\ last_fallback_call = <<>>
    /\ rec = NoRec

----------------------------------------------------------------------------
(* MotionEstimator (engine/motion.py).                                      *)
(*                                                                          *)
(* Coordinates are thousandths of the normalized camera unit, velocities    *)
(* thousandths per second, accelerations thousandths per second squared;    *)
(* where the code rounds to the nearest float the model rounds down to the  *)
(* integer.  smoothing_alpha 0.35 is the fraction AlphaNum / AlphaDen.      *)

max_stale_ms == 250
AlphaNum == 7
AlphaDen == 20

\* update is called with timestamps up to MaxTime ms
MaxTime == 600

\* between two update calls the timestamp advances by one of these (ms)
TimeSteps == {150, max_stale_ms}

Vec3(x, y, z) == [x |-> x, y |-> y, z |-> z]
Zero3 == Vec3(0, 0, 0)

\* the raw index fingertips (landmark 8) the tracker reports
TipA == Vec3(500, 500, -50)
TipB == Vec3(560, 480, -20)

\* the labels the tracker gives a hand: a handedness, or UNKNOWN
Labels == {"LEFT", "RIGHT", "UNKNOWN"}

\* HandObservation(side, landmarks, confidence): of the landmarks the estimator
\* reads the fingertip only, so an observation holds their number and landmark 8
Observation(side, tip) ==
    [side |-> side, tip |-> tip, confidence |-> 95, landmarks_len |-> 21]

\* an observation whose landmark list stops before the fingertip
ShortObservation(side) ==
    [side |-> side, tip |-> Zero3, confidence |-> 95, landmarks_len |-> 5]

\* an observation whose confidence is 1.2
OverconfidentObservation(side, tip) ==
    [side |-> side, tip |-> tip, confidence |-> 120, landmarks_len |-> 21]

\* the observations of a frame: no hand, one hand at either point, two hands with
\* any two labels (the same one twice included), a hand with too few landmarks
\* alone or behind a complete one, or a hand with a confidence above 1
ObservationLists ==
    {<<>>}
    \cup {<< Observation(s, t) >> : s \in Labels, t \in {TipA, TipB}}
    \cup {<< Observation(s1, TipA), Observation(s2, TipB) >> : s1, s2 \in Labels}
    \cup {<< ShortObservation("RIGHT") >>,
          << Observation("LEFT", TipA), ShortObservation("RIGHT") >>,
          << OverconfidentObservation("RIGHT", TipB) >>}

\* _lerp(a, b, alpha) with alpha = smoothing_alpha
Lerp(a, b) == (a * (AlphaDen - AlphaNum) + b * AlphaNum) \div AlphaDen

\* _vec_lerp
VecLerp(a, b) == Vec3(Lerp(a.x, b.x), Lerp(a.y, b.y), Lerp(a.z, b.z))

\* _vec_sub
VecSub(a, b) == Vec3(a.x - b.x, a.y - b.y, a.z - b.z)

\* _vec_div(v, dt) for dt = dt_ms / 1000 seconds
VecDiv(v, dt_ms) ==
    IF dt_ms = 0 THEN Zero3
    ELSE Vec3((v.x * 1000) \div dt_ms, (v.y * 1000) \div dt_ms, (v.z * 1000) \div dt_ms)

\* math.sqrt, rounded down: the root of n lies in lo .. hi
RECURSIVE SqrtIn(_, _, _)
SqrtIn(n, lo, hi) ==
    IF lo >= hi THEN lo
    ELSE LET mid == (lo + hi + 1) \div 2 IN
         IF mid * mid <= n THEN SqrtIn(n, mid, hi) ELSE SqrtIn(n, lo, mid - 1)

\* _vec_mag(v), computed on v / scale so that the squares stay machine integers
VecMag(v, scale) ==
    LET x == v.x \div scale
        y == v.y \div scale
        z == v.z \div scale IN
    scale * SqrtIn(x * x + y * y + z * z, 0, 46340)

\* Mutant of Stale: the age in ms is compared with the threshold taken as seconds
StaleInSeconds(timestamp_ms, now) == now - timestamp_ms > max_stale_ms * 1000

\* the test of the stale_sides comprehension (line 68)
Stale(timestamp_ms, now) == now - timestamp_ms > max_stale_ms

\* self._history after the stale entries are popped (lines 65-71)
Purge(history, now) ==
    [s \in {t \in DOMAIN history : ~Stale(history[t].timestamp_ms, now)} |-> history[s]]

\* obs.side if obs.side in {"LEFT", "RIGHT"} else f"HAND_{len(hands)}" (line 74)
SideLabel(obs, hands) ==
    IF obs.side \in {"LEFT", "RIGHT"} THEN obs.side
    ELSE CASE Len(hands) = 0 -> "HAND_0"
           [] Len(hands) = 1 -> "HAND_1"
           [] OTHER -> "HAND_N"

\* Mutant of ColdStart: the new side is smoothed from an all-zero history entry
\* one second old
ColdStartFromOrigin(current) ==
    [position |-> VecLerp(Zero3, current),
     velocity |-> VecLerp(Zero3, VecDiv(VecLerp(Zero3, current), 1000)),
     acceleration |-> Zero3]

\* the branch for a side with no history entry (lines 77-80)
ColdStart(current) == [position |-> current, velocity |-> Zero3, acceleration |-> Zero3]

\* the branch for a side with the history entry prev (lines 81-90)
Smoothed(prev, current, now) ==
    LET dt_ms == IF now - prev.timestamp_ms > 1 THEN now - prev.timestamp_ms ELSE 1
        pos == VecLerp(prev.position, current)
        raw_vel == VecDiv(VecSub(pos, prev.position), dt_ms)
        vel == VecLerp(prev.velocity, raw_vel)
        raw_acc == VecDiv(VecSub(vel, prev.velocity), dt_ms)
        acc == VecLerp(prev.acceleration, raw_acc)
    IN [position |-> pos, velocity |-> vel, acceleration |-> acc]

\* the HandState built for one observation (lines 92-116)
HandState(side, obs, motion, now) ==
    [side |-> side, confidence |-> obs.confidence, tip |-> obs.tip,
     position |-> motion.position, velocity |-> motion.velocity,
     acceleration |-> motion.acceleration,
     speed |-> VecMag(motion.velocity, 1),
     acceleration_magnitude |-> VecMag(motion.acceleration, 10000),
     depth |-> -motion.position.z, timestamp_ms |-> now]

\* _position_from_landmarks(obs.landmarks) raises IndexError at landmarks[8]
PositionRaises(obs) == ~(8 < obs.landmarks_len)

\* the loop over the observations (lines 73-116): the history and the hands after
\* the observations from number i on are processed.  An IndexError at line 75
\* leaves update at once, with the history as the observations before have left it.
RECURSIVE ProcessObservations(_, _, _, _, _)
ProcessObservations(observations, i, history, hands, now) ==
    IF i > Len(observations) THEN [history |-> history, hands |-> hands, raised |-> FALSE]
    ELSE IF PositionRaises(observations[i])
    THEN [history |-> history, hands |-> hands, raised |-> TRUE]
    ELSE LET obs == observations[i]
             side == SideLabel(obs, hands)
             motion == IF side \notin DOMAIN history THEN ColdStart(obs.tip)
                       ELSE Smoothed(history[side], obs.tip, now)
             entry == [position |-> motion.position, velocity |-> motion.velocity,
                       acceleration |-> motion.acceleration, timestamp_ms |-> now]
         IN ProcessObservations(observations, i + 1, (side :> entry) @@ history,
                                Append(hands, HandState(side, obs, motion, now)), now)

\* next((h for h in hands if h.side == side), None), None being the empty list
FirstOf(hands, side) ==
    LET idx == {i \in DOMAIN hands : hands[i].side = side} IN
    IF idx = {} THEN <<>> ELSE << hands[CHOOSE i \in idx : \A j \in idx : i <= j] >>

\* the record of a frame in which update has not been called
NoMotionRec == [called |-> FALSE, now |-> 0, observations |-> <<>>, raised |-> FALSE,
                hands |-> <<>>, right_hand |-> <<>>, left_hand |-> <<>>, pre_seen |-> <<>>]

RECURSIVE SeenAfter(_, _)
SeenAfter(hands, seen) ==
    IF hands = <<>> THEN seen
    ELSE SeenAfter(Tail(hands), (Head(hands).side :> Head(hands)) @@ seen)

\* MotionEstimator.update(observations, timestamp_ms), the timestamp being step ms
\* after the one of the previous call.  When it raises, no FrameState is returned.
Update(observations, step) ==
    LET now == m_now + step IN
    /\ m_rec = NoMotionRec
    /\ now <= MaxTime
    /\ \E out \in {ProcessObservations(observations, 1, Purge(m_history, now), <<>>, now)} :
          /\ m_history' = out.history
          /\ m_seen' = SeenAfter(out.hands, m_seen)
          /\ m_rec' = [called |-> TRUE, now |-> now, observations |-> observations,
                       raised |-> out.raised,
                       hands |-> IF out.raised THEN <<>> ELSE out.hands,
                       right_hand |-> IF out.raised THEN <<>>
                                      ELSE FirstOf(out.hands, "RIGHT"),
                       left_hand |-> IF out.raised THEN <<>>
                                     ELSE FirstOf(out.hands, "LEFT"),
                       pre_seen |-> m_seen]
    /\ m_now' = now
    /\ UNCHANGED <<engineVars, gestureVars, staticVars, cursorVars>>

\* the caller has taken the FrameState and goes on to the next frame
NextMotionFrame ==
    /\ m_rec # NoMotionRec
    /\ m_rec' = NoMotionRec
    /\ UNCHANGED <<m_history, m_now, m_seen>>
    /\ UNCHANGED <<engineVars, gestureVars, staticVars, cursorVars>>

\* MotionEstimator.__init__
MotionInit ==
    /\ m_history = <<>>
    /\ m_now = 0
    /\ m_seen = <<>>
    /\ m_rec = NoMotionRec

----------------------------------------------------------------------------
(* detect_simple_gesture (engine/gestures.py).                              *)
(*                                                                          *)
(* A landmark list is a sequence of points [x, y] in thousandths of the     *)
(* normalized camera unit; lm[i] of the code is At(lm, i).  y grows         *)
(* downwards: a finger is up when its tip has the smaller y.                *)

\* the pinch distance 0.05 (line 40)
pinch_distance == 50

\* the number of landmarks of a complete MediaPipe hand
FullHand == 21

At(lm, i) == lm[i + 1]

\* lm[i] raises IndexError for i >= len(lm)
Has(lm, i) == i < Len(lm)

\* _distance(p1, p2) < d, on the squares
DistanceBelow(p1, p2, d) ==
    (p1.x - p2.x) * (p1.x - p2.x) + (p1.y - p2.y) * (p1.y - p2.y) < d * d

\* _is_finger_up(landmarks, tip_id, pip_id)
IsFingerUp(lm, tip_id, pip_id) == At(lm, tip_id).y < At(lm, pip_id).y

\* Mutant of DetectSimpleGesture: the open palm is tested before the pinch
DetectSimpleGestureOpenPalmFirst(lm) ==
    IF ~Has(lm, 20) THEN "IndexError"
    ELSE LET index_up == IsFingerUp(lm, 8, 6)
             middle_up == IsFingerUp(lm, 12, 10)
             ring_up == IsFingerUp(lm, 16, 14)
             pinky_up == IsFingerUp(lm, 20, 18) IN
         IF index_up /\ middle_up /\ ring_up /\ pinky_up THEN "OPEN_PALM"
         ELSE IF DistanceBelow(At(lm, 4), At(lm, 8), pinch_distance) THEN "PINCH"
         ELSE IF index_up /\ middle_up THEN "TWO_UP"
         ELSE IF ~index_up /\ ~middle_up
                 /\ At(lm, 8).y > At(lm, 0).y /\ At(lm, 12).y > At(lm, 0).y
         THEN "TWO_DOWN"
         ELSE "None"

\* detect_simple_gesture(lm): the name returned, "None", or "IndexError" when a
\* subscript is out of range.  Lines 34-38 read lm[4], lm[8], lm[6], lm[12] and
\* lm[10] before the pinch test, lines 43-44 read lm[16], lm[14], lm[20] and
\* lm[18] after it.
DetectSimpleGesture(lm) ==
    IF ~Has(lm, 12) THEN "IndexError"
    ELSE LET index_up == IsFingerUp(lm, 8, 6)
             middle_up == IsFingerUp(lm, 12, 10) IN
         IF DistanceBelow(At(lm, 4), At(lm, 8), pinch_distance) THEN "PINCH"
         ELSE IF ~Has(lm, 20) THEN "IndexError"
         ELSE LET ring_up == IsFingerUp(lm, 16, 14)
                  pinky_up == IsFingerUp(lm, 20, 18) IN
              IF index_up /\ middle_up /\ ring_up /\ pinky_up THEN "OPEN_PALM"
              ELSE IF index_up /\ middle_up THEN "TWO_UP"
              ELSE IF ~index_up /\ ~middle_up
                      /\ At(lm, 8).y > At(lm, 0).y /\ At(lm, 12).y > At(lm, 0).y
              THEN "TWO_DOWN"
              ELSE "None"

\* The landmark lists the model draws.  The wrist (0) lies at y = 800, the middle
\* joints (6, 10, 14, 18) at y = 500; a fingertip (8, 12, 16, 20) is up (y = 300),
\* down (y = 600) or low, below the wrist (y = 900); the thumb tip (4) touches the
\* index tip or stays away from it.
Pt(x, y) == [x |-> x, y |-> y]

Bends == {"up", "down", "low"}

TipY(bend) == CASE bend = "up" -> 300 [] bend = "down" -> 600 [] OTHER -> 900

Landmarks(pinch, index, middle, ring, pinky) ==
    [k \in 1 .. FullHand |->
        CASE k - 1 = 0 -> Pt(500, 800)
          [] k - 1 = 4 -> IF pinch THEN Pt(480, TipY(index) + 20) ELSE Pt(300, 600)
          [] k - 1 = 8 -> Pt(450, TipY(index))
          [] k - 1 = 12 -> Pt(500, TipY(middle))
          [] k - 1 = 16 -> Pt(550, TipY(ring))
          [] k - 1 = 20 -> Pt(600, TipY(pinky))
          [] k - 1 \in {6, 10, 14, 18} -> Pt(400 + 25 * (k - 1), 500)
          [] OTHER -> Pt(400, 700)]

\* complete hands, every combination of the thumb and the four fingers
FullLandmarks ==
    {Landmarks(pinch, i, m, r, p) : pinch \in BOOLEAN, i \in Bends, m \in Bends,
                                    r \in Bends, p \in Bends}

\* degraded hands: the first n landmarks of a hand only
DegradedCounts == {0, 5, 9, 13, 20}
DegradedLandmarks ==
    {SubSeq(Landmarks(pinch, "up", "up", r, "up"), 1, n) :
        pinch \in BOOLEAN, r \in {"up", "down"}, n \in DegradedCounts}

LandmarkInputs == FullLandmarks \cup DegradedLandmarks

NoStaticRec == [called |-> FALSE, lm |-> <<>>, result |-> "None"]

\* a call detect_simple_gesture(lm)
DetectSimple(lm) ==
    /\ s_rec = NoStaticRec
    /\ s_rec' = [called |-> TRUE, lm |-> lm, result |-> DetectSimpleGesture(lm)]
    /\ UNCHANGED d_rec
    /\ UNCHANGED <<engineVars, motionVars, gestureVars, cursorVars>>

\* the caller has taken the result
NextStatic ==
    /\ s_rec # NoStaticRec
    /\ s_rec' = NoStaticRec
    /\ UNCHANGED d_rec
    /\ UNCHANGED <<engineVars, motionVars, gestureVars, cursorVars>>

\* the record of a frame in which _detect_dynamic_for_hand has not been called
NoDynamicRec == [called |-> FALSE, points |-> <<>>, result |-> <<>>]

StaticInit == s_rec = NoStaticRec /\ d_rec = NoDynamicRec

----------------------------------------------------------------------------
(* GestureRecognizer (engine/gestures.py).                                  *)
(*                                                                          *)
(* A hand is the part of a HandState the recognizer reads: side, landmarks, *)
(* position, speed and timestamp_ms.  Positions are thousandths, speeds     *)
(* thousandths per second, confidences hundredths; a quotient is rounded    *)
(* down to the integer.                                                     *)

swipe_dx_threshold == 120
swipe_dy_threshold == 120
push_pull_dz_threshold == 45
min_avg_speed == 800

\* `len(points) < 6` (line 96)
min_points == 6

\* `duration_s < 0.12` (line 110), in ms
min_duration_ms == 120

\* the confidence of a static candidate (line 92)
static_confidence == 82

\* `dynamic_candidate.confidence >= 0.86` (line 144)
strong_confidence == 86

Abs(n) == IF n < 0 THEN -n ELSE n
Min2(a, b) == IF a < b THEN a ELSE b
Max2(a, b) == IF a > b THEN a ELSE b

\* _candidate(name, confidence, source)
Candidate(name, confidence, source) ==
    [name |-> name, confidence |-> Max2(0, Min2(confidence, 100)), source |-> source]

\* Mutant of DequeAppend: a full window drops its newest sample
DequeAppendDropNewest(d, x, maxlen) ==
    IF Len(d) >= maxlen THEN SubSeq(d, 1, maxlen - 1) \o << x >> ELSE Append(d, x)

\* deque(maxlen=maxlen).append(x): a full deque drops items from its left end
DequeAppend(d, x, maxlen) ==
    LET a == Append(d, x) IN
    IF Len(a) > maxlen THEN SubSeq(a, Len(a) - maxlen + 1, Len(a)) ELSE a

\* Mutant of UpdateHistory: a sample that comes more than max_stale_ms after the
\* newest one of its window starts the window afresh
RECURSIVE UpdateHistoryRestartAfterGap(_, _, _)
UpdateHistoryRestartAfterGap(hist, hands, i) ==
    IF i > Len(hands) THEN hist
    ELSE LET old == Get(hist, hands[i].side, <<>>)
             kept == IF old # <<>>
                        /\ hands[i].timestamp_ms - old[Len(old)].timestamp_ms > max_stale_ms
                     THEN <<>> ELSE old
         IN UpdateHistoryRestartAfterGap(
               (hands[i].side :> DequeAppend(kept, hands[i], history_size)) @@ hist,
               hands, i + 1)

\* _update_history(frame_state), from hand i on
RECURSIVE UpdateHistory(_, _, _)
UpdateHistory(hist, hands, i) ==
    IF i > Len(hands) THEN hist
    ELSE UpdateHistory(
            (hands[i].side :> DequeAppend(Get(hist, hands[i].side, <<>>), hands[i],
                                          history_size)) @@ hist,
            hands, i + 1)

\* _detect_static_for_hand(hand): no candidate or one, when detect_simple_gesture returns
DetectStaticForHand(hand) ==
    LET name == DetectSimpleGesture(hand.landmarks) IN
    IF name = "None" THEN <<>> ELSE << Candidate(name, static_confidence, "STATIC") >>

RECURSIVE SumSpeed(_)
SumSpeed(points) == IF points = <<>> THEN 0 ELSE Head(points).speed + SumSpeed(Tail(points))

\* min(1.0, dist / threshold) * 0.7 + min(0.3, avg_speed / 3.0)
DynamicConfidence(dist, threshold, avg_speed) ==
    (Min2(100, (dist * 100) \div threshold) * 70) \div 100 + Min2(30, avg_speed \div 30)

\* Mutant of DetectDynamicForHand: a swipe needs its axis to move at least as far
\* as the other one, so that a tie |dx| = |dy| is a horizontal swipe
DetectDynamicForHandTieIsSwipe(hist, side) ==
    LET points == Get(hist, side, <<>>) IN
    IF Len(points) < min_points THEN <<>>
    ELSE LET first == points[1]
             last == points[Len(points)]
             dx == last.position.x - first.position.x
             dy == last.position.y - first.position.y
             dz == last.position.z - first.position.z
             avg_speed == SumSpeed(points) \div Len(points)
             duration_ms == Max2(last.timestamp_ms - first.timestamp_ms, 1)
         IN
         IF avg_speed < min_avg_speed /\ duration_ms < min_duration_ms THEN <<>>
         ELSE IF Abs(dx) > swipe_dx_threshold /\ Abs(dx) >= Abs(dy)
         THEN << Candidate(IF dx > 0 THEN "SWIPE_RIGHT" ELSE "SWIPE_LEFT",
                           DynamicConfidence(Abs(dx), swipe_dx_threshold, avg_speed),
                           "DYNAMIC") >>
         ELSE IF Abs(dy) > swipe_dy_threshold /\ Abs(dy) >= Abs(dx)
         THEN << Candidate(IF dy > 0 THEN "SWIPE_DOWN" ELSE "SWIPE_UP",
                           DynamicConfidence(Abs(dy), swipe_dy_threshold, avg_speed),
                           "DYNAMIC") >>
         ELSE IF Abs(dz) > push_pull_dz_threshold
         THEN << Candidate(IF dz > 0 THEN "PUSH" ELSE "PULL",
                           DynamicConfidence(Abs(dz), push_pull_dz_threshold, avg_speed),
                           "DYNAMIC") >>
         ELSE <<>>

\* _detect_dynamic_for_hand(side) on the history hist
DetectDynamicForHand(hist, side) ==
    LET points == Get(hist, side, <<>>) IN
    IF Len(points) < min_points THEN <<>>
    ELSE LET first == points[1]
             last == points[Len(points)]
             dx == last.position.x - first.position.x
             dy == last.position.y - first.position.y
             dz == last.position.z - first.position.z
             avg_speed == SumSpeed(points) \div Len(points)
             duration_ms == Max2(last.timestamp_ms - first.timestamp_ms, 1)
         IN
         IF avg_speed < min_avg_speed /\ duration_ms < min_duration_ms THEN <<>>
         ELSE IF Abs(dx) > swipe_dx_threshold /\ Abs(dx) > Abs(dy)
         THEN << Candidate(IF dx > 0 THEN "SWIPE_RIGHT" ELSE "SWIPE_LEFT",
                           DynamicConfidence(Abs(dx), swipe_dx_threshold, avg_speed),
                           "DYNAMIC") >>
         ELSE IF Abs(dy) > swipe_dy_threshold /\ Abs(dy) > Abs(dx)
         THEN << Candidate(IF dy > 0 THEN "SWIPE_DOWN" ELSE "SWIPE_UP",
                           DynamicConfidence(Abs(dy), swipe_dy_threshold, avg_speed),
                           "DYNAMIC") >>
         ELSE IF Abs(dz) > push_pull_dz_threshold
         THEN << Candidate(IF dz > 0 THEN "PUSH" ELSE "PULL",
                           DynamicConfidence(Abs(dz), push_pull_dz_threshold, avg_speed),
                           "DYNAMIC") >>
         ELSE <<>>

\* Mutant of Arbitrate: a static candidate always goes before a dynamic one
ArbitrateStaticFirst(static_candidate, dynamic_candidate) ==
    IF static_candidate # <<>> THEN static_candidate ELSE dynamic_candidate

\* the if/elif chain of lines 144-149: the candidate written to output[hand.side],
\* or none
Arbitrate(static_candidate, dynamic_candidate) ==
    IF dynamic_candidate # <<>> /\ dynamic_candidate[1].confidence >= strong_confidence
    THEN dynamic_candidate
    ELSE IF static_candidate # <<>> THEN static_candidate
    ELSE IF dynamic_candidate # <<>> THEN dynamic_candidate
    ELSE <<>>

\* The windows the model draws for the dynamic classifier alone: n samples taken
\* step ms apart, all of one speed, the last one moved by (dx, dy, dz) from the
\* place of the others.
WindowLengths == {min_points - 1, min_points, min_points + 1}
WindowSteps == {10, 40}
WindowSpeeds == {0, 900}
SwipeMoves == {-130, 0, 120, 130}
DepthMoves == {-50, 0, 45, 50}

Window(n, step, speed, dx, dy, dz) ==
    [k \in 1 .. n |->
        [side |-> "RIGHT", landmarks |-> <<>>, speed |-> speed, timestamp_ms |-> k * step,
         position |-> IF k = n THEN Vec3(500 + dx, 500 + dy, -50 + dz)
                      ELSE Vec3(500, 500, -50)]]

WindowInputs ==
    {Window(n, step, speed, dx, dy, dz) :
        n \in WindowLengths, step \in WindowSteps, speed \in WindowSpeeds,
        dx \in SwipeMoves, dy \in SwipeMoves, dz \in DepthMoves}

\* a call _detect_dynamic_for_hand("RIGHT") of a recognizer whose history of the
\* side holds the window
DetectDynamic(points) ==
    /\ d_rec = NoDynamicRec
    /\ d_rec' = [called |-> TRUE, points |-> points,
                 result |-> DetectDynamicForHand([s \in {"RIGHT"} |-> points], "RIGHT")]
    /\ UNCHANGED s_rec
    /\ UNCHANGED <<engineVars, motionVars, gestureVars, cursorVars>>

\* the caller has taken the candidate
NextDynamic ==
    /\ d_rec # NoDynamicRec
    /\ d_rec' = NoDynamicRec
    /\ UNCHANGED s_rec
    /\ UNCHANGED <<engineVars, motionVars, gestureVars, cursorVars>>

\* the loop of detect_for_frame (lines 140-149) from hand i on.  acc holds the
\* output dict and, per hand, the two candidates found; an IndexError of
\* detect_simple_gesture leaves the loop at once.
RECURSIVE ArbitrateHands(_, _, _, _)
ArbitrateHands(hist, hands, i, acc) ==
    IF i > Len(hands) THEN acc
    ELSE IF DetectSimpleGesture(hands[i].landmarks) = "IndexError"
    THEN [acc EXCEPT !.raised = TRUE]
    ELSE LET static_candidate == DetectStaticForHand(hands[i])
             dynamic_candidate == DetectDynamicForHand(hist, hands[i].side)
             chosen == Arbitrate(static_candidate, dynamic_candidate)
         IN ArbitrateHands(hist, hands, i + 1,
                [raised |-> FALSE,
                 output |-> IF chosen = <<>> THEN acc.output
                            ELSE (hands[i].side :> chosen[1]) @@ acc.output,
                 statics |-> Append(acc.statics, static_candidate),
                 dynamics |-> Append(acc.dynamics, dynamic_candidate)])

\* detect_for_frame is called at most MaxFrames times, with frames FrameMs apart
MaxFrames == 6
FrameMs == 40

\* the window lengths the recognizer is built with
MaxHistory == 6
HistorySizes == {2, MaxHistory}

\* The hands of the frames the model draws: a fist (no static gesture) or a pinch,
\* resting at NearPoint or FarPoint or moving fast at FarPoint.
NearPoint == Vec3(500, 500, -50)
FarPoint == Vec3(650, 500, -50)
FistLandmarks == Landmarks(FALSE, "down", "down", "down", "down")
PinchLandmarks == Landmarks(TRUE, "down", "down", "down", "down")

Hand(side, landmarks, position, speed) ==
    [side |-> side, landmarks |-> landmarks, position |-> position, speed |-> speed]

SlowFist == Hand("RIGHT", FistLandmarks, NearPoint, 0)
FastFist == Hand("RIGHT", FistLandmarks, FarPoint, 900)
FastPinch == Hand("RIGHT", PinchLandmarks, FarPoint, 900)
SlowPinch == Hand("RIGHT", PinchLandmarks, FarPoint, 0)
LeftPinch == Hand("LEFT", PinchLandmarks, NearPoint, 0)
ShortHand == Hand("RIGHT", SubSeq(PinchLandmarks, 1, 9), NearPoint, 0)

\* one hand, both hands, two hands the estimator gave the same side, or a hand
\* with nine landmarks only
FrameInputs ==
    {<< SlowFist >>, << FastFist >>, << SlowPinch >>,
     << SlowFist, LeftPinch >>, << SlowFist, FastPinch >>, << ShortHand >>}

NoGestureRec == [called |-> FALSE, hands |-> <<>>, pre_history |-> <<>>, raised |-> FALSE,
                 output |-> <<>>, statics |-> <<>>, dynamics |-> <<>>]

\* detect_for_frame(frame_state), the frame's HandStates being stamped step ms
\* after those of the previous frame, and no later than limit
DetectForFrameAt(frame, step, limit) ==
    LET now == g_now + step
        hands == [i \in DOMAIN frame |-> frame[i] @@ [timestamp_ms |-> now]]
    IN
    /\ g_rec = NoGestureRec
    /\ now <= limit
    /\ \E hist \in {UpdateHistory(g_history, hands, 1)} :
       \E out \in {ArbitrateHands(hist, hands, 1,
                      [raised |-> FALSE, output |-> <<>>, statics |-> <<>>,
                       dynamics |-> <<>>])} :
          /\ g_history' = hist
          /\ g_rec' = [called |-> TRUE, hands |-> hands, pre_history |-> g_history,
                       raised |-> out.raised,
                       output |-> IF out.raised THEN <<>> ELSE out.output,
                       statics |-> out.statics, dynamics |-> out.dynamics]
    /\ g_now' = now
    /\ UNCHANGED history_size
    /\ UNCHANGED <<engineVars, motionVars, staticVars, cursorVars>>

\* detect_for_frame(frame_state) at the steady frame rate
DetectForFrame(frame) == DetectForFrameAt(frame, FrameMs, MaxFrames * FrameMs)

\* A frame that comes after the right hand has been out of view for longer than
\* MotionEstimator keeps a side (max_stale_ms): it shows the left hand only.
AbsenceMs == max_stale_ms + FrameMs
AbsenceLimit == MaxFrames * FrameMs + AbsenceMs
RightHandFrames == {<< SlowFist >>, << FastFist >>}
LeftOnlyFrame == << LeftPinch >>

\* detect_for_frame(frame_state) with the right hand in view
DetectRightHand(frame) == DetectForFrameAt(frame, FrameMs, AbsenceLimit)

\* detect_for_frame(frame_state) after the right hand has been away
DetectAfterAbsence == DetectForFrameAt(LeftOnlyFrame, AbsenceMs, AbsenceLimit)

\* the caller has taken the gestures dict and goes on to the next frame
NextGestureFrame ==
    /\ g_rec # NoGestureRec
    /\ g_rec' = NoGestureRec
    /\ UNCHANGED <<history_size, g_history, g_now>>
    /\ UNCHANGED <<engineVars, motionVars, staticVars, cursorVars>>

\* GestureRecognizer.__init__(history_size)
GestureInit(size) ==
    /\ history_size = size
    /\ g_history = <<>>
    /\ g_now = 0
    /\ g_rec = NoGestureRec

----------------------------------------------------------------------------
(* ActionEngine.move_cursor_from_hand (engine/actions.py, lines 107-118).   *)
(*                                                                          *)
(* smooth_x and smooth_y are in 1024ths of a pixel, which holds the results *)
(* of five smoothing steps from whole pixels exactly; cursor_alpha 0.25 is  *)
(* the fraction cursor_alpha_num / cursor_alpha_den.                        *)

cursor_alpha_num == 1
cursor_alpha_den == 4

\* move_cursor_from_hand is called at most MaxCursorCalls times
MaxCursorCalls == 4

Px(n) == 1024 * n

\* int(v) of a non-negative float
IntOf(v) == v \div 1024

\* the pixel int(index_tip.x * screen_w), int(index_tip.y * screen_h) of the hands
\* the model draws: the top left corner of the screen and three other points
CursorTargets ==
    {[x |-> 0, y |-> 0], [x |-> 0, y |-> 300], [x |-> 640, y |-> 360],
     [x |-> 1000, y |-> 700]}

\* smooth * (1 - cursor_alpha) + target * cursor_alpha
CursorLerp(smooth, target) ==
    (smooth * (cursor_alpha_den - cursor_alpha_num) + target * cursor_alpha_num)
        \div cursor_alpha_den

\* the if/else of lines 112-116: the new smooth_x and smooth_y
SmoothTowards(target) ==
    IF smooth_x = 0 /\ smooth_y = 0
    THEN [x |-> Px(target.x), y |-> Px(target.y)]
    ELSE [x |-> CursorLerp(smooth_x, Px(target.x)), y |-> CursorLerp(smooth_y, Px(target.y))]

NoCursorRec == [called |-> FALSE, calls_before |-> 0, target |-> [x |-> 0, y |-> 0],
                pre |-> [x |-> 0, y |-> 0], moved_to |-> [x |-> 0, y |-> 0]]

\* move_cursor_from_hand(hand_state), the hand's index tip lying over the pixel target
MoveCursorFromHand(target) ==
    /\ c_rec = NoCursorRec
    /\ cursor_calls < MaxCursorCalls
    /\ \E new \in {SmoothTowards(target)} :
          /\ smooth_x' = new.x
          /\ smooth_y' = new.y
          /\ c_rec' = [called |-> TRUE, calls_before |-> cursor_calls, target |-> target,
                       pre |-> [x |-> smooth_x, y |-> smooth_y],
                       moved_to |-> [x |-> IntOf(new.x), y |-> IntOf(new.y)]]
    /\ cursor_calls' = cursor_calls + 1
    /\ UNCHANGED <<engineVars, motionVars, gestureVars, staticVars>>

\* the cursor has moved; the next frame comes
NextCursorFrame ==
    /\ c_rec # NoCursorRec
    /\ c_rec' = NoCursorRec
    /\ UNCHANGED <<cursor_calls, smooth_x, smooth_y>>
    /\ UNCHANGED <<engineVars, motionVars, gestureVars, staticVars>>

\* ActionEngine.__init__: the cursor smoothing state (lines 27-28)
CursorInit ==
    /\ cursor_calls = 0
    /\ smooth_x = 0
    /\ smooth_y = 0
    /\ c_rec = NoCursorRec

----------------------------------------------------------------------------
(* Specifications *)

Init ==
    /\ \E p \in ProfileInputs : EngineInit(p)
    /\ MotionInit
    /\ GestureInit(MaxHistory)
    /\ StaticInit
    /\ CursorInit

Next ==
    \/ \E g \in GestureDicts, adv \in Advances : Apply(g, adv)
    \/ NextFrame

\* the dispatcher: ActionEngine under every profile, gestures and clock
Spec == Init /\ [][Next]_vars

NoProfile == [given |-> FALSE, exists |-> FALSE, data |-> <<>>]

MotionStart ==
    /\ EngineInit(NoProfile)
    /\ MotionInit
    /\ GestureInit(MaxHistory)
    /\ StaticInit
    /\ CursorInit

MotionNext ==
    \/ \E observations \in ObservationLists, step \in TimeSteps : Update(observations, step)
    \/ NextMotionFrame

\* the estimator: MotionEstimator under every observation list and timestamp
MotionSpec == MotionStart /\ [][MotionNext]_vars

GestureStart ==
    /\ EngineInit(NoProfile)
    /\ MotionInit
    /\ \E size \in HistorySizes : GestureInit(size)
    /\ StaticInit
    /\ CursorInit

GestureNext ==
    \/ \E frame \in FrameInputs : DetectForFrame(frame)
    \/ NextGestureFrame

\* the recognizer: GestureRecognizer under every window length and frame sequence
GestureSpec == GestureStart /\ [][GestureNext]_vars

AbsenceNext ==
    \/ \E frame \in RightHandFrames : DetectRightHand(frame)
    \/ DetectAfterAbsence
    \/ NextGestureFrame

\* the recognizer while the right hand leaves the view and comes back
AbsenceSpec == GestureStart /\ [][AbsenceNext]_vars

StaticStart ==
    /\ EngineInit(NoProfile)
    /\ MotionInit
    /\ GestureInit(MaxHistory)
    /\ StaticInit
    /\ CursorInit

StaticNext ==
    \/ \E lm \in LandmarkInputs : DetectSimple(lm)
    \/ NextStatic

\* the static classifier: detect_simple_gesture on every landmark list drawn
StaticSpec == StaticStart /\ [][StaticNext]_vars

DynamicNext ==
    \/ \E points \in WindowInputs : DetectDynamic(points)
    \/ NextDynamic

\* the dynamic classifier: _detect_dynamic_for_hand on every window drawn
DynamicSpec == StaticStart /\ [][DynamicNext]_vars

CursorStart ==
    /\ EngineInit(NoProfile)
    /\ MotionInit
    /\ GestureInit(MaxHistory)
    /\ StaticInit
    /\ CursorInit

CursorNext ==
    \/ \E target \in CursorTargets : MoveCursorFromHand(target)
    \/ NextCursorFrame

\* the cursor: move_cursor_from_hand under every sequence of targets
CursorSpec == CursorStart /\ [][CursorNext]_vars

----------------------------------------------------------------------------
(* Properties of ActionEngine.apply.  They are read off rec, the record of  *)
(* the call just made: its inputs, the debounce state it started from       *)
(* (rec.pre), what it executed and what it returned.                        *)

Rules == 1 .. Len(mappings)

\* Step 1 of the configured mode: rule i has its candidate in the call's gestures
Matching(i) ==
    LET m == mappings[i] IN
    /\ RuleSide(m) \in DOMAIN rec.gestures
    /\ rec.gestures[RuleSide(m)].name = RuleGesture(m)
    /\ rec.gestures[RuleSide(m)].confidence >= RuleMinConf(m)

\* the time rule i's key last fired before the call (0 when it never did)
FiredBefore(i) == MappingKey(mappings[i]) \in DOMAIN rec.pre.last_triggered
LastFired(i) == Get(rec.pre.last_triggered, MappingKey(mappings[i]), 0)

\* Steps 1 and 2: rule i is eligible in the call
Eligible(i) == Matching(i) /\ rec.now - LastFired(i) >= RuleCooldown(mappings[i])
EligibleRules == {i \in Rules : Eligible(i)}

ConfidenceFor(i) == rec.gestures[RuleSide(mappings[i])].confidence

\* the call executed rule i: its action id went to _execute_action and, when no
\* external call raised, its key was stamped and its trace returned
ExecutedRule(i) ==
    LET m == mappings[i] IN
    /\ rec.executed = << RuleAction(m) >>
    /\ ~rec.raised =>
          /\ rec.text = Text(RuleSide(m), RuleGesture(m), ConfidenceFor(i), RuleAction(m))
          /\ MappingKey(m) \in DOMAIN last_triggered
          /\ last_triggered[MappingKey(m)] = rec.now

\* C1: in configured mode, when the only matching rule's key has fired before at
\* time t, the call executes nothing if now - t is less than the rule's cooldown
\* and executes the rule's action if now - t is at least the cooldown.
C1_Debounce ==
    rec.mode = "configured" =>
        \A i \in Rules :
            (Matching(i) /\ FiredBefore(i) /\ \A j \in Rules \ {i} : ~Matching(j)) =>
                IF rec.now - LastFired(i) < RuleCooldown(mappings[i])
                THEN rec.executed = <<>> /\ rec.calls = <<>>
                ELSE ExecutedRule(i)

\* a repeat strictly inside the cooldown of the only matching rule, suppressed
C1_Witness ==
    /\ rec.mode = "configured"
    /\ \E i \in Rules :
          /\ Matching(i) /\ FiredBefore(i) /\ \A j \in Rules \ {i} : ~Matching(j)
          /\ LastFired(i) > 0
          /\ rec.now > LastFired(i)
          /\ rec.now - LastFired(i) < RuleCooldown(mappings[i])
          /\ rec.executed = <<>>

\* C2: in configured mode, when two or more rules are eligible, the executed rule
\* is an eligible rule of the highest priority, whatever the confidences are.
C2_Priority ==
    (rec.mode = "configured" /\ Cardinality(EligibleRules) >= 2) =>
        \E i \in EligibleRules :
            /\ \A j \in EligibleRules : RulePriority(mappings[j]) <= RulePriority(mappings[i])
            /\ ExecutedRule(i)

\* a rule of priority 5 wins over an eligible rule of priority 3 whose candidate
\* has the higher confidence
C2_Witness ==
    /\ rec.mode = "configured"
    /\ \E i, j \in EligibleRules :
          /\ RulePriority(mappings[i]) > RulePriority(mappings[j])
          /\ ConfidenceFor(i) < ConfidenceFor(j)
          /\ ExecutedRule(i)
          /\ RuleAction(mappings[i]) # RuleAction(mappings[j])

\* the eligible rules no other eligible rule precedes in descending (priority, confidence)
TopRules ==
    {i \in EligibleRules :
        \A j \in EligibleRules :
            ~ \/ RulePriority(mappings[j]) > RulePriority(mappings[i])
              \/ /\ RulePriority(mappings[j]) = RulePriority(mappings[i])
                 /\ ConfidenceFor(j) > ConfidenceFor(i)}

MinOf(S) == CHOOSE x \in S : \A y \in S : x <= y

\* C3: in configured mode, when several eligible rules share the highest priority
\* and the same confidence, the one that comes first in the mappings list is executed.
C3_ConfigOrder ==
    (rec.mode = "configured" /\ Cardinality(TopRules) >= 2) => ExecutedRule(MinOf(TopRules))

\* two tied rules with different actions, the later of which did not run
C3_Witness ==
    /\ rec.mode = "configured"
    /\ Cardinality(TopRules) >= 2
    /\ ~rec.raised
    /\ \E j \in TopRules :
          /\ RuleAction(mappings[j]) # RuleAction(mappings[MinOf(TopRules)])
          /\ rec.executed = << RuleAction(mappings[MinOf(TopRules)]) >>

BothPinch == NameOf(rec.gestures, "RIGHT") = "PINCH" /\ NameOf(rec.gestures, "LEFT") = "PINCH"

\* C4: in fallback mode, when RIGHT and LEFT are both PINCH the call takes the
\* RIGHT PINCH branch: it makes no call but a left click, and never a right click.
C4_RightPinchFirst ==
    (rec.mode = "fallback" /\ BothPinch) =>
        /\ \A n \in DOMAIN rec.calls : rec.calls[n] = Call("click", << "left" >>, 0)
        /\ Len(rec.calls) <= 1
        /\ ~rec.raised =>
              rec.text = Text("RIGHT", "PINCH", rec.gestures["RIGHT"].confidence, "LEFT CLICK")

\* both hands pinch and the left click is issued
C4_Witness ==
    /\ rec.mode = "fallback"
    /\ BothPinch
    /\ rec.calls = << Call("click", << "left" >>, 0) >>
    /\ ~rec.raised

\* the cooldown class of the branch the fallback table gives the call's gestures
ClassOfCall ==
    LET r == NameOf(rec.gestures, "RIGHT")
        l == NameOf(rec.gestures, "LEFT") IN
    IF r = "PINCH" \/ l = "PINCH" THEN "click"
    ELSE IF r \in {"TWO_UP", "TWO_DOWN"} THEN "scroll"
    ELSE IF r = "OPEN_PALM" \/ l = "OPEN_PALM" THEN "none"
    ELSE IF r \in DynamicNames THEN "dynamic"
    ELSE "none"

\* whether the class's own last-fire time lets it fire at the call's time
OwnCooldownElapsed(class) ==
    CASE class = "click" -> rec.now - rec.pre.last_click_time >= click_cooldown
      [] class = "scroll" -> rec.now - rec.pre.last_scroll_time >= scroll_cooldown
      [] class = "dynamic" -> rec.now - rec.pre.last_dynamic_time >= FallbackDynamicCooldown
      [] OTHER -> FALSE

\* C5: in fallback mode an input call is made exactly when the own class of the
\* branch is out of its cooldown, whatever the other classes' timestamps are, and
\* a firing sets the timestamp of its own class to now and changes no other.
C5_IndependentClasses ==
    rec.mode = "fallback" =>
        LET stamped == rec.calls # <<>> /\ ~rec.raised IN
        /\ rec.calls # <<>> <=> OwnCooldownElapsed(ClassOfCall)
        /\ last_click_time =
              IF stamped /\ ClassOfCall = "click" THEN rec.now ELSE rec.pre.last_click_time
        /\ last_scroll_time =
              IF stamped /\ ClassOfCall = "scroll" THEN rec.now ELSE rec.pre.last_scroll_time
        /\ last_dynamic_time =
              IF stamped /\ ClassOfCall = "dynamic" THEN rec.now ELSE rec.pre.last_dynamic_time
        /\ last_triggered = rec.pre.last_triggered

\* a click fires while the scroll class is inside its cooldown
C5_Witness ==
    /\ rec.mode = "fallback"
    /\ ClassOfCall = "click"
    /\ rec.calls # <<>> /\ ~rec.raised
    /\ rec.pre.last_scroll_time > 0
    /\ rec.now - rec.pre.last_scroll_time < scroll_cooldown
    /\ last_scroll_time = rec.pre.last_scroll_time

\* C6: a call of apply executes at most one action: at most one action id goes to
\* _execute_action in configured mode, at most one input call is made in fallback mode.
C6_AtMostOneAction ==
    /\ rec.mode = "configured" => Len(rec.executed) <= 1
    /\ rec.mode = "fallback" => rec.executed = <<>> /\ Len(rec.calls) <= 1

\* three rules are eligible at once and one action id is executed
C6_Witness ==
    /\ rec.mode = "configured"
    /\ Cardinality(EligibleRules) >= 3
    /\ Len(rec.executed) = 1

FallbackTails == {"LEFT CLICK", "RIGHT CLICK", "SCROLL UP", "SCROLL DOWN", "NO ACTION"}

\* what the call did is what the fallback table does: no action id executed and,
\* when it returned, one of the table's texts
UsedFallbackTable ==
    /\ rec.executed = <<>>
    /\ \/ rec.raised
       \/ rec.text = TrackingText
       \/ rec.text.tail \in FallbackTails
       \/ rec.text.side = "RIGHT" /\ rec.text.name \in DynamicNames /\ rec.text.tail = ""

\* C7: apply uses the fallback table exactly when the mappings list or the actions
\* table is empty; with both non-empty it never touches the fallback timestamps,
\* and a frame without eligible rule returns the tracking status and executes nothing.
C7_ModeSelection ==
    rec.mode # "none" =>
        /\ UsedFallbackTable <=> (mappings = <<>> \/ DOMAIN actions = {})
        /\ (mappings # <<>> /\ DOMAIN actions # {}) =>
              /\ last_click_time = 0 /\ last_scroll_time = 0 /\ last_dynamic_time = 0
              /\ EligibleRules = {} =>
                    /\ rec.text = TrackingProfileText
                    /\ rec.calls = <<>> /\ rec.executed = <<>> /\ ~rec.raised
                    /\ last_triggered = rec.pre.last_triggered

\* configured mode, RIGHT shows TWO_UP (a scroll in the fallback table), no rule is
\* eligible: the tracking status comes back
C7_Witness ==
    /\ mappings # <<>> /\ DOMAIN actions # {}
    /\ rec.mode # "none"
    /\ NameOf(rec.gestures, "RIGHT") = "TWO_UP"
    /\ rec.now >= scroll_cooldown
    /\ rec.text = TrackingProfileText

\* the external calls the same gestures would make in a call at the same clock reading
PlannedNow ==
    IF ConfiguredMode THEN ApplyConfigured(rec.gestures, clock).planned
    ELSE ApplyFallback(rec.gestures, clock).planned

\* C8: when an external call raises, apply raises and every debounce timestamp is
\* what it was before the call, so the same gestures make the same call again at once.
C8_FailureKeepsDebounce ==
    rec.raised =>
        /\ rec.text = NoText
        /\ last_triggered = rec.pre.last_triggered
        /\ last_click_time = rec.pre.last_click_time
        /\ last_scroll_time = rec.pre.last_scroll_time
        /\ last_dynamic_time = rec.pre.last_dynamic_time
        /\ rec.calls # <<>>
        /\ SubSeq(PlannedNow, 1, Len(rec.calls)) = rec.calls

\* the second call of a sequence action raises, in configured mode, for a key that
\* has fired before
C8_Witness ==
    /\ rec.raised
    /\ rec.mode = "configured"
    /\ Len(rec.calls) = 2
    /\ rec.pre.last_triggered # <<>>

----------------------------------------------------------------------------
(* Properties of MotionEstimator.update.  m_rec is the record of the call   *)
(* just made; hands[i] is the HandState returned for observations[i].       *)

\* hands[i] is the first HandState of its side in the returned frame
FirstOfSide(i) == \A j \in 1 .. (i - 1) : m_rec.hands[j].side # m_rec.hands[i].side

\* a cold start: the raw fingertip, no velocity, no acceleration, no speed
Cold(h) ==
    /\ h.position = h.tip
    /\ h.velocity = Zero3
    /\ h.acceleration = Zero3
    /\ h.speed = 0

\* C9: with non-decreasing timestamps, a side observed again more than max_stale_ms
\* after it was last observed gets a cold start, whatever was updated in between.
C9_StaleColdStart ==
    (m_rec.called /\ ~m_rec.raised) =>
        /\ Len(m_rec.hands) = Len(m_rec.observations)
        /\ \A i \in DOMAIN m_rec.hands :
              LET side == m_rec.hands[i].side IN
              (/\ FirstOfSide(i)
               /\ side \in DOMAIN m_rec.pre_seen
               /\ m_rec.now - m_rec.pre_seen[side].timestamp_ms > max_stale_ms)
              => Cold(m_rec.hands[i])

\* a side that was moving comes back after more than 250 ms at another point, and
\* another side was observed after it in between
C9_Witness ==
    /\ m_rec.called
    /\ \E i \in DOMAIN m_rec.hands :
          LET side == m_rec.hands[i].side IN
          /\ FirstOfSide(i)
          /\ side \in DOMAIN m_rec.pre_seen
          /\ m_rec.now - m_rec.pre_seen[side].timestamp_ms > max_stale_ms
          /\ m_rec.pre_seen[side].velocity # Zero3
          /\ m_rec.pre_seen[side].position # m_rec.hands[i].tip
          /\ \E other \in DOMAIN m_rec.pre_seen :
                /\ other # side
                /\ m_rec.pre_seen[other].timestamp_ms > m_rec.pre_seen[side].timestamp_ms
                /\ m_rec.now - m_rec.pre_seen[other].timestamp_ms <= max_stale_ms

\* C10: the first time a side is observed its HandState is a cold start, for every
\* raw position and timestamp.
C10_FirstColdStart ==
    m_rec.called =>
        \A i \in DOMAIN m_rec.hands :
            (FirstOfSide(i) /\ m_rec.hands[i].side \notin DOMAIN m_rec.pre_seen)
            => /\ Cold(m_rec.hands[i])
               /\ m_rec.hands[i].tip = m_rec.observations[i].tip
               /\ m_rec.hands[i].timestamp_ms = m_rec.now

\* a side is seen for the first time, as second hand of a frame in which the first
\* hand is a known, moving one
C10_Witness ==
    /\ m_rec.called
    /\ Len(m_rec.hands) = 2
    /\ m_rec.hands[2].side \notin DOMAIN m_rec.pre_seen
    /\ m_rec.hands[2].side # m_rec.hands[1].side
    /\ m_rec.hands[1].velocity # Zero3
    /\ Cold(m_rec.hands[2])

\* the side labels of the HandStates of the returned frame, in order
SidesOf(hands) == [i \in DOMAIN hands |-> hands[i].side]

\* C11: the hands of a returned FrameState hold at most one HandState per side
\* label, also when two observations of the list carry the same label.
C11_OneHandPerSide ==
    m_rec.called =>
        \A i, j \in DOMAIN m_rec.hands :
            SidesOf(m_rec.hands)[i] = SidesOf(m_rec.hands)[j] => i = j

----------------------------------------------------------------------------
(* Properties of GestureRecognizer.detect_for_frame.  g_rec is the record   *)
(* of the call just made: the frame's hands, the history before the call,   *)
(* the two candidates found for each hand and the dict returned.            *)

\* the hands of the given side among hands, in order
RECURSIVE HandsOf(_, _)
HandsOf(hands, side) ==
    IF hands = <<>> THEN <<>>
    ELSE (IF Head(hands).side = side THEN << Head(hands) >> ELSE <<>>)
         \o HandsOf(Tail(hands), side)

\* the last n items of s (all of s when it has fewer)
LastItems(s, n) == IF Len(s) <= n THEN s ELSE SubSeq(s, Len(s) - n + 1, Len(s))

\* every HandState of the side that has arrived so far, in arrival order, as far
\* as the history before the call knows them
Arrived(side) == Get(g_rec.pre_history, side, <<>>) \o HandsOf(g_rec.hands, side)

\* C12: the history of each side holds at most history_size HandStates, and after
\* a call they are the most recently appended ones in arrival order: appending to
\* a full window drops exactly the oldest sample.
C12_HistoryWindow ==
    /\ \A side \in DOMAIN g_history : Len(g_history[side]) <= history_size
    /\ g_rec.called =>
          /\ DOMAIN g_history =
                DOMAIN g_rec.pre_history \cup {g_rec.hands[i].side : i \in DOMAIN g_rec.hands}
          /\ \A side \in DOMAIN g_history :
                g_history[side] = LastItems(Arrived(side), history_size)

\* one hand arrives at a full window of MaxHistory samples: the oldest
\* sample, which differs from the one behind it, is gone and the rest moved up
C12_Witness ==
    /\ g_rec.called
    /\ history_size = MaxHistory
    /\ Len(g_rec.hands) = 1
    /\ LET side == g_rec.hands[1].side
           before == Get(g_rec.pre_history, side, <<>>) IN
       /\ Len(before) = history_size
       /\ before[1] # before[2]
       /\ g_history[side] = Tail(before) \o << g_rec.hands[1] >>

\* what the arbitration rule gives hand i of the frame: the dynamic candidate when
\* it is strong, else the static one when there is one, else the dynamic one, if any
RuleChoice(i) ==
    LET static_candidate == g_rec.statics[i]
        dynamic_candidate == g_rec.dynamics[i] IN
    IF dynamic_candidate # <<>> /\ dynamic_candidate[1].confidence >= strong_confidence
    THEN dynamic_candidate
    ELSE IF static_candidate # <<>> THEN static_candidate
    ELSE dynamic_candidate

\* the hands of the side for which the rule gives a candidate
Choosing(side) ==
    {i \in DOMAIN g_rec.hands : g_rec.hands[i].side = side /\ RuleChoice(i) # <<>>}

MaxOf(S) == CHOOSE x \in S : \A y \in S : x >= y

\* C13: the dict detect_for_frame returns holds, for each side of the frame, the
\* candidate the rule gives the hand of that side (the last such hand when the
\* frame has several), and no entry when the rule gives none; it holds one
\* candidate per side and no side that is not in the frame.
C13_Arbitration ==
    (g_rec.called /\ ~g_rec.raised) =>
        /\ Len(g_rec.statics) = Len(g_rec.hands)
        /\ Len(g_rec.dynamics) = Len(g_rec.hands)
        /\ DOMAIN g_rec.output \subseteq {g_rec.hands[i].side : i \in DOMAIN g_rec.hands}
        /\ \A i \in DOMAIN g_rec.hands :
              LET side == g_rec.hands[i].side IN
              IF Choosing(side) = {} THEN side \notin DOMAIN g_rec.output
              ELSE /\ side \in DOMAIN g_rec.output
                   /\ g_rec.output[side] = RuleChoice(MaxOf(Choosing(side)))[1]

\* a hand pinches at the end of a fast swipe: the strong dynamic candidate is
\* returned and the static one is not
C13_Witness ==
    /\ g_rec.called /\ ~g_rec.raised
    /\ Len(g_rec.hands) = 1
    /\ g_rec.statics[1] # <<>>
    /\ g_rec.statics[1][1].name = "PINCH"
    /\ g_rec.dynamics[1] # <<>>
    /\ g_rec.dynamics[1][1].confidence >= strong_confidence
    /\ g_rec.output[g_rec.hands[1].side].source = "DYNAMIC"

\* the three other cases of the rule, each with a single hand of its side
C13_WeakDynamicStatic ==
    /\ g_rec.called /\ ~g_rec.raised /\ Len(g_rec.hands) = 1
    /\ g_rec.statics[1] # <<>> /\ g_rec.dynamics[1] # <<>>
    /\ g_rec.dynamics[1][1].confidence < strong_confidence
    /\ g_rec.output[g_rec.hands[1].side].source = "STATIC"

C13_WeakDynamicAlone ==
    /\ g_rec.called /\ ~g_rec.raised /\ Len(g_rec.hands) = 1
    /\ g_rec.statics[1] = <<>> /\ g_rec.dynamics[1] # <<>>
    /\ g_rec.dynamics[1][1].confidence < strong_confidence
    /\ g_rec.output[g_rec.hands[1].side] = g_rec.dynamics[1][1]

C13_NoCandidate ==
    /\ g_rec.called /\ ~g_rec.raised /\ Len(g_rec.hands) = 1
    /\ g_rec.statics[1] = <<>> /\ g_rec.dynamics[1] = <<>>
    /\ g_rec.output = <<>>

----------------------------------------------------------------------------
(* Properties of detect_simple_gesture.  s_rec holds the landmarks of the   *)
(* call just made and what it returned.                                     *)

\* the geometry of the four gestures on a complete hand, each on its own
Tip(finger) == CASE finger = "index" -> 8 [] finger = "middle" -> 12
                 [] finger = "ring" -> 16 [] OTHER -> 20
Fingers == {"index", "middle", "ring", "pinky"}

\* the finger's tip lies above the joint two landmarks before it
Up(lm, finger) == At(lm, Tip(finger)).y < At(lm, Tip(finger) - 2).y

PinchGeometry(lm) ==
    LET dx == At(lm, 4).x - At(lm, 8).x
        dy == At(lm, 4).y - At(lm, 8).y IN
    dx * dx + dy * dy < pinch_distance * pinch_distance

OpenPalmGeometry(lm) == \A f \in Fingers : Up(lm, f)

TwoUpGeometry(lm) == Up(lm, "index") /\ Up(lm, "middle")

TwoDownGeometry(lm) ==
    /\ ~Up(lm, "index") /\ ~Up(lm, "middle")
    /\ At(lm, 8).y > At(lm, 0).y
    /\ At(lm, 12).y > At(lm, 0).y

\* C14: on a complete hand detect_simple_gesture returns the first gesture of the
\* order PINCH, OPEN_PALM, TWO_UP, TWO_DOWN whose geometry the landmarks satisfy,
\* and none when they satisfy no geometry.
C14_StaticPrecedence ==
    (s_rec.called /\ Len(s_rec.lm) = FullHand) =>
        LET lm == s_rec.lm IN
        /\ PinchGeometry(lm) => s_rec.result = "PINCH"
        /\ (~PinchGeometry(lm) /\ OpenPalmGeometry(lm)) => s_rec.result = "OPEN_PALM"
        /\ (~PinchGeometry(lm) /\ ~OpenPalmGeometry(lm) /\ TwoUpGeometry(lm))
              => s_rec.result = "TWO_UP"
        /\ (~PinchGeometry(lm) /\ ~OpenPalmGeometry(lm) /\ ~TwoUpGeometry(lm)
            /\ TwoDownGeometry(lm)) => s_rec.result = "TWO_DOWN"
        /\ (~PinchGeometry(lm) /\ ~OpenPalmGeometry(lm) /\ ~TwoUpGeometry(lm)
            /\ ~TwoDownGeometry(lm)) => s_rec.result = "None"

\* a hand with all four fingers up and the thumb on the index tip: PINCH
C14_Witness ==
    /\ s_rec.called /\ Len(s_rec.lm) = FullHand
    /\ PinchGeometry(s_rec.lm)
    /\ OpenPalmGeometry(s_rec.lm)
    /\ s_rec.result = "PINCH"

\* the other cases of the order
C14_PinchOverTwoDown ==
    /\ s_rec.called /\ Len(s_rec.lm) = FullHand
    /\ PinchGeometry(s_rec.lm) /\ TwoDownGeometry(s_rec.lm) /\ s_rec.result = "PINCH"

C14_OpenPalmOverTwoUp ==
    /\ s_rec.called /\ Len(s_rec.lm) = FullHand
    /\ ~PinchGeometry(s_rec.lm) /\ OpenPalmGeometry(s_rec.lm) /\ s_rec.result = "OPEN_PALM"

C14_TwoUp == s_rec.called /\ s_rec.result = "TWO_UP"
C14_TwoDown == s_rec.called /\ s_rec.result = "TWO_DOWN"
C14_None == s_rec.called /\ Len(s_rec.lm) = FullHand /\ s_rec.result = "None"

----------------------------------------------------------------------------
(* Degraded input *)

\* the observations of the call that have fewer landmarks than a complete hand
Degraded == {i \in DOMAIN m_rec.observations : m_rec.observations[i].landmarks_len < 21}

\* C15: MotionEstimator.update returns normally whatever the number of landmarks
\* of an observation is, with a FrameState that leaves out at most the degraded hands.
C15_DegradedNeverRaises ==
    m_rec.called =>
        /\ ~m_rec.raised
        /\ Len(m_rec.hands) >= Len(m_rec.observations) - Cardinality(Degraded)

\* the same of GestureRecognizer.detect_for_frame: it returns normally, with no
\* candidate for a side whose only hand has too few landmarks
C15_RecognizerNeverRaises ==
    g_rec.called =>
        /\ ~g_rec.raised
        /\ \A i \in DOMAIN g_rec.hands :
              (Len(g_rec.hands) = 1 /\ Len(g_rec.hands[i].landmarks) < FullHand)
              => g_rec.output = <<>>

----------------------------------------------------------------------------
(* Configured actions *)

ActionKinds == {"mouse_click", "scroll", "key", "hotkey", "open_url", "type_text"}

\* the input calls an action or step of one of the six kinds stands for
KindCalls(a) ==
    LET kind == Get(a, "type", "None") IN
    CASE kind = "mouse_click" -> << Call("click", << Get(a, "button", "left") >>, 0) >>
      [] kind = "scroll" -> << Call("scroll", <<>>, Get(a, "amount", scroll_amount)) >>
      [] kind = "key" -> << Call("press", << Get(a, "key", "space") >>, 0) >>
      [] kind = "hotkey" -> IF Get(a, "keys", <<>>) # <<>>
                            THEN << Call("hotkey", Get(a, "keys", <<>>), 0) >> ELSE <<>>
      [] kind = "open_url" -> IF Get(a, "url", "") # ""
                              THEN << Call("open", << Get(a, "url", "") >>, 0) >> ELSE <<>>
      [] kind = "type_text" -> << Call("write", << Get(a, "text", "") >>, 0) >>

RECURSIVE AllKindCalls(_)
AllKindCalls(steps) ==
    IF steps = <<>> THEN <<>> ELSE KindCalls(Head(steps)) \o AllKindCalls(Tail(steps))

\* the action dict the call executed, when it executed one that is in the table
ExecutedAction == actions[rec.executed[1]]

ExecutedSequence ==
    /\ rec.mode = "configured"
    /\ rec.executed # <<>>
    /\ rec.executed[1] \in DOMAIN actions
    /\ Get(ExecutedAction, "type", "None") = "sequence"

\* C16: executing a sequence action whose steps are all of the six non-sequence
\* kinds makes the input calls of every step, in list order, none skipped.
C16_SequenceRunsEveryStep ==
    (/\ ExecutedSequence
     /\ ~rec.raised
     /\ \A n \in DOMAIN Get(ExecutedAction, "steps", <<>>) :
           Get(ExecutedAction.steps[n], "type", "None") \in ActionKinds)
    => rec.calls = AllKindCalls(Get(ExecutedAction, "steps", <<>>))

\* the action id has no entry in the actions table, or an entry of unknown type
BadAction(action_id) ==
    \/ action_id \notin DOMAIN actions
    \/ Get(actions[action_id], "type", "None") \notin ActionKinds \cup {"sequence"}

\* the action id of a mapping key "side:gesture:action"
ActionOfKey(key) == key[5]

\* a rule with a bad action has been executed in an earlier call
BadFiredBefore == \E key \in DOMAIN rec.pre.last_triggered : BadAction(ActionOfKey(key))

\* C17: in configured mode a winning rule whose action id is missing from the
\* table or whose action has an unknown type makes no input call and raises
\* nothing: apply returns the rule's trace as for any rule.  Calls after it go on
\* as before: a call executes a rule exactly when one is eligible, and then an
\* eligible one.
C17_BadActionIsNoOp ==
    rec.mode = "configured" =>
        /\ (rec.executed # <<>> /\ BadAction(rec.executed[1])) =>
              /\ rec.calls = <<>>
              /\ ~rec.raised
              /\ rec.text.tail = rec.executed[1]
              /\ \E i \in EligibleRules : ExecutedRule(i)
        /\ BadFiredBefore =>
              /\ rec.executed # <<>> <=> EligibleRules # {}
              /\ rec.executed # <<>> => \E i \in EligibleRules : ExecutedRule(i)

\* after a rule with a missing action has been executed, a rule whose action has
\* an unknown type wins: no input call is made and the trace is returned
C17_Witness ==
    /\ rec.mode = "configured"
    /\ \E key \in DOMAIN rec.pre.last_triggered : ActionOfKey(key) \notin DOMAIN actions
    /\ rec.executed # <<>>
    /\ rec.executed[1] \in DOMAIN actions
    /\ BadAction(rec.executed[1])
    /\ rec.calls = <<>>
    /\ ~rec.raised
    /\ rec.text.tail = rec.executed[1]

\* after a rule with a bad action has been executed, a rule with a good action
\* wins and its input call is made
C17_GoodAfterBad ==
    /\ rec.mode = "configured"
    /\ BadFiredBefore
    /\ rec.executed # <<>>
    /\ ~BadAction(rec.executed[1])
    /\ rec.calls # <<>>

----------------------------------------------------------------------------
(* Debounce timestamps over time.  The clock readings of the model never    *)
(* decrease: each apply call reads the previous reading plus an advance >= 0. *)

\* the stored timestamp of a mapping key, 0.0 being what the cooldown test reads
\* for a key that was never stamped
StampOf(lt, key) == Get(lt, key, 0)

\* C18: no apply call lowers a stored debounce timestamp: after the call the stamp
\* of every mapping key and of each fallback class is at least what it was before,
\* and a stamp that changed is the call's clock reading.
C18_StampsNeverDecrease ==
    rec.mode # "none" =>
        /\ \A key \in DOMAIN rec.pre.last_triggered \cup DOMAIN last_triggered :
              /\ StampOf(last_triggered, key) >= StampOf(rec.pre.last_triggered, key)
              /\ StampOf(last_triggered, key) # StampOf(rec.pre.last_triggered, key)
                    => last_triggered[key] = rec.now
        /\ last_click_time >= rec.pre.last_click_time
        /\ last_scroll_time >= rec.pre.last_scroll_time
        /\ last_dynamic_time >= rec.pre.last_dynamic_time
        /\ \A t \in {last_click_time, last_scroll_time, last_dynamic_time} :
              t <= rec.now

\* a key stamped in an earlier call is stamped again, later, while another key
\* keeps its stamp
C18_Witness ==
    /\ rec.mode = "configured"
    /\ \E key, other \in DOMAIN rec.pre.last_triggered :
          /\ key # other
          /\ rec.pre.last_triggered[key] > 0
          /\ last_triggered[key] > rec.pre.last_triggered[key]
          /\ last_triggered[other] = rec.pre.last_triggered[other]
          /\ last_triggered[other] > 0

\* a fallback class is stamped again, later
C18_FallbackRestamped ==
    /\ rec.mode = "fallback"
    /\ rec.pre.last_click_time > 0
    /\ last_click_time > rec.pre.last_click_time
    /\ last_scroll_time = rec.pre.last_scroll_time
    /\ last_scroll_time > 0

----------------------------------------------------------------------------
(* Confidences, in hundredths *)

\* C19: the confidence of every HandState MotionEstimator.update returns lies in
\* [0, 1], whatever the confidence of the observation is.
C19_ConfidenceInRange ==
    m_rec.called =>
        \A i \in DOMAIN m_rec.hands :
            m_rec.hands[i].confidence >= 0 /\ m_rec.hands[i].confidence <= 100

\* the same of the GestureCandidates detect_for_frame returns
C19_CandidateConfidenceInRange ==
    g_rec.called =>
        \A side \in DOMAIN g_rec.output :
            g_rec.output[side].confidence >= 0 /\ g_rec.output[side].confidence <= 100

----------------------------------------------------------------------------
(* Cursor smoothing.  c_rec is the record of the move_cursor_from_hand call *)
(* just made: the target pixel, the smoothed position before it and how     *)
(* many calls came before.                                                  *)

\* C20: the first call sets the smoothed position to the target, and every later
\* call sets it to smooth * (1 - cursor_alpha) + target * cursor_alpha, whatever
\* the smoothed position was, (0, 0) included.
C20_InitialisesOnce ==
    c_rec.called =>
        IF c_rec.calls_before = 0
        THEN smooth_x = Px(c_rec.target.x) /\ smooth_y = Px(c_rec.target.y)
        ELSE /\ smooth_x = CursorLerp(c_rec.pre.x, Px(c_rec.target.x))
             /\ smooth_y = CursorLerp(c_rec.pre.y, Px(c_rec.target.y))

\* the smoothing of a later call from a position other than (0, 0)
C20_LaterCallSmooths ==
    /\ c_rec.called
    /\ c_rec.calls_before > 0
    /\ c_rec.pre # [x |-> 0, y |-> 0]
    /\ smooth_x = CursorLerp(c_rec.pre.x, Px(c_rec.target.x))
    /\ smooth_x # Px(c_rec.target.x)

----------------------------------------------------------------------------
(* The dynamic classifier alone.  d_rec is the record of the                *)
(* _detect_dynamic_for_hand call just made: the window of the side and the  *)
(* candidate returned, <<>> for None.                                       *)

\* the displacement of the window of the call, newest sample minus oldest
WindowDx == d_rec.points[Len(d_rec.points)].position.x - d_rec.points[1].position.x
WindowDy == d_rec.points[Len(d_rec.points)].position.y - d_rec.points[1].position.y
WindowDz == d_rec.points[Len(d_rec.points)].position.z - d_rec.points[1].position.z

\* the call had at least 6 samples and passed the energy gate: the window is
\* not both slow on average and shorter than 0.12 s
Classified ==
    /\ d_rec.called
    /\ Len(d_rec.points) >= 6
    /\ ~ (/\ SumSpeed(d_rec.points) \div Len(d_rec.points) < 800
          /\ d_rec.points[Len(d_rec.points)].timestamp_ms - d_rec.points[1].timestamp_ms < 120)

\* the three conditions on the displacement, in thousandths
HorizontalCondition == Abs(WindowDx) > 120 /\ Abs(WindowDx) > Abs(WindowDy)
VerticalCondition == Abs(WindowDy) > 120 /\ Abs(WindowDy) > Abs(WindowDx)
DepthCondition == Abs(WindowDz) > 45

\* the name of the candidate returned, "None" for none
ReturnedName == IF d_rec.result = <<>> THEN "None" ELSE d_rec.result[1].name

\* C21: with at least 6 samples and the energy gate passed, the classifier returns
\* a horizontal swipe iff |dx| > 0.12 and |dx| > |dy|; else a vertical swipe iff
\* |dy| > 0.12 and |dy| > |dx|; else PUSH (dz > 0) or PULL iff |dz| > 0.045; else
\* nothing.  So no PUSH or PULL when a swipe condition holds, and no swipe when
\* |dx| = |dy|.
C21_AxisSelection ==
    Classified =>
        /\ ReturnedName \in {"SWIPE_LEFT", "SWIPE_RIGHT"} <=> HorizontalCondition
        /\ ReturnedName \in {"SWIPE_UP", "SWIPE_DOWN"}
               <=> (~ HorizontalCondition /\ VerticalCondition)
        /\ ReturnedName \in {"PUSH", "PULL"}
               <=> (~ HorizontalCondition /\ ~ VerticalCondition /\ DepthCondition)
        /\ ReturnedName = "PUSH" => WindowDz > 0
        /\ ReturnedName = "PULL" => WindowDz < 0
        /\ ReturnedName = "None"
               <=> (~ HorizontalCondition /\ ~ VerticalCondition /\ ~ DepthCondition)
        /\ (HorizontalCondition \/ VerticalCondition) => ReturnedName \notin {"PUSH", "PULL"}
        /\ Abs(WindowDx) = Abs(WindowDy)
               => ReturnedName \notin {"SWIPE_LEFT", "SWIPE_RIGHT", "SWIPE_UP", "SWIPE_DOWN"}

\* a classified window that moved as far across as down, both beyond the swipe
\* thresholds, and in depth too: the classifier returned PUSH or PULL, no swipe
C21_Witness ==
    /\ Classified
    /\ Abs(WindowDx) = Abs(WindowDy)
    /\ Abs(WindowDx) > 120
    /\ DepthCondition
    /\ ReturnedName \in {"PUSH", "PULL"}

\* a swipe returned although the window moved in depth beyond its threshold
C21_SwipeOverDepth ==
    /\ Classified
    /\ VerticalCondition
    /\ DepthCondition
    /\ ReturnedName \in {"SWIPE_UP", "SWIPE_DOWN"}

\* a tie beyond the thresholds with no move in depth: nothing is returned
C21_TieReturnsNothing ==
    /\ Classified
    /\ Abs(WindowDx) = Abs(WindowDy)
    /\ Abs(WindowDx) > 120
    /\ ~ DepthCondition
    /\ ReturnedName = "None"

----------------------------------------------------------------------------
(* The fallback decision table, row by row *)

\* the rows of the table in their order: 1 RIGHT PINCH, 2 LEFT PINCH, 3 RIGHT
\* TWO_UP, 4 RIGHT TWO_DOWN, 5 OPEN_PALM of either hand, 6 a dynamic gesture of
\* the right hand, 7 anything else
TableRows == 1 .. 7

\* whether the gestures of the call match row n
RowMatches(n) ==
    LET r == NameOf(rec.gestures, "RIGHT")
        l == NameOf(rec.gestures, "LEFT") IN
    CASE n = 1 -> r = "PINCH"
      [] n = 2 -> l = "PINCH"
      [] n = 3 -> r = "TWO_UP"
      [] n = 4 -> r = "TWO_DOWN"
      [] n = 5 -> r = "OPEN_PALM" \/ l = "OPEN_PALM"
      [] n = 6 -> r \in DynamicNames
      [] OTHER -> TRUE

\* the first row the gestures of the call match
FirstRow == MinOf({n \in TableRows : RowMatches(n)})

\* the input calls row n may make
RowCalls(n) ==
    CASE n = 1 -> {Call("click", << "left" >>, 0)}
      [] n = 2 -> {Call("click", << "right" >>, 0)}
      [] n = 3 -> {Call("scroll", <<>>, 120)}
      [] n = 4 -> {Call("scroll", <<>>, -120)}
      [] n = 6 -> {DynamicCall(NameOf(rec.gestures, "RIGHT"))}
      [] OTHER -> {}

\* whether row n is inside its cooldown at the time of the call
RowSuppressed(n) ==
    CASE n \in {1, 2} -> rec.now - rec.pre.last_click_time < click_cooldown
      [] n \in {3, 4} -> rec.now - rec.pre.last_scroll_time < scroll_cooldown
      [] n = 6 -> rec.now - rec.pre.last_dynamic_time < FallbackDynamicCooldown
      [] OTHER -> FALSE

\* the text row n returns
RowText(n) ==
    CASE n = 1 -> Text("RIGHT", "PINCH", rec.gestures["RIGHT"].confidence, "LEFT CLICK")
      [] n = 2 -> Text("LEFT", "PINCH", rec.gestures["LEFT"].confidence, "RIGHT CLICK")
      [] n = 3 -> Text("RIGHT", "TWO UP", rec.gestures["RIGHT"].confidence, "SCROLL UP")
      [] n = 4 -> Text("RIGHT", "TWO DOWN", rec.gestures["RIGHT"].confidence, "SCROLL DOWN")
      [] n = 5 -> Text("", "OPEN PALM", -1, "NO ACTION")
      [] n = 6 -> Text("RIGHT", NameOf(rec.gestures, "RIGHT"),
                       rec.gestures["RIGHT"].confidence, "")
      [] OTHER -> TrackingText

\* C22: in fallback mode only the first matching row of the table acts: the call
\* makes no input call but that row's, none at all when the row is inside its
\* cooldown (no later row is tried, and no timestamp changes), and the text it
\* returns is that row's either way.
C22_NoFallThrough ==
    rec.mode = "fallback" =>
        /\ Len(rec.calls) <= 1
        /\ \A k \in DOMAIN rec.calls : rec.calls[k] \in RowCalls(FirstRow)
        /\ RowSuppressed(FirstRow) =>
              /\ rec.calls = <<>>
              /\ Snapshot = rec.pre
        /\ ~rec.raised => rec.text = RowText(FirstRow)

\* LEFT is PINCH inside the click cooldown of an earlier click and RIGHT is
\* TWO_UP with the scroll cooldown over: no click, no scroll, the PINCH text
C22_Witness ==
    /\ rec.mode = "fallback"
    /\ NameOf(rec.gestures, "LEFT") = "PINCH"
    /\ NameOf(rec.gestures, "RIGHT") = "TWO_UP"
    /\ rec.pre.last_click_time > 0
    /\ rec.now - rec.pre.last_click_time < click_cooldown
    /\ rec.now - rec.pre.last_scroll_time >= scroll_cooldown
    /\ rec.calls = <<>>
    /\ rec.text = Text("LEFT", "PINCH", rec.gestures["LEFT"].confidence, "RIGHT CLICK")

----------------------------------------------------------------------------
(* The debounce table across one configured call *)

\* the keys whose entry in the debounce table differs after the call: added,
\* or holding another time
ChangedKeys ==
    {key \in DOMAIN rec.pre.last_triggered \cup DOMAIN last_triggered :
        \/ key \notin DOMAIN rec.pre.last_triggered
        \/ key \notin DOMAIN last_triggered
        \/ last_triggered[key] # rec.pre.last_triggered[key]}

\* the keys of the eligible rules whose action the call executed
WinningKeys ==
    {MappingKey(mappings[i]) :
        i \in {j \in EligibleRules : rec.executed = << RuleAction(mappings[j]) >>}}

\* the eligible rules that lost the arbitration of the call
LosingRules == {i \in EligibleRules : MappingKey(mappings[i]) \notin ChangedKeys}

\* C23: a configured call changes the debounce table at the winning rule's key
\* and nowhere else: every other key, the keys of the eligible rules that lost
\* included, keeps its time (or stays absent), so a loser is still out of its
\* cooldown after the call; a call with no eligible rule changes nothing.
C23_OnlyWinnerStamped ==
    rec.mode = "configured" =>
        /\ Cardinality(ChangedKeys) <= 1
        /\ ChangedKeys \subseteq WinningKeys
        /\ \A key \in ChangedKeys : last_triggered[key] = rec.now
        /\ (EligibleRules # {} /\ ~rec.raised) => Cardinality(ChangedKeys) = 1
        /\ \A i \in LosingRules :
              rec.now - Get(last_triggered, MappingKey(mappings[i]), 0)
                  >= RuleCooldown(mappings[i])
        /\ EligibleRules = {} => last_triggered = rec.pre.last_triggered

\* two rules with different keys are eligible in one call: the winner's key is
\* stamped, the loser's key, which fired before, keeps its older time
C23_Witness ==
    /\ rec.mode = "configured"
    /\ ~rec.raised
    /\ \E i, j \in EligibleRules :
          /\ MappingKey(mappings[i]) # MappingKey(mappings[j])
          /\ ChangedKeys = {MappingKey(mappings[i])}
          /\ FiredBefore(j)
          /\ last_triggered[MappingKey(mappings[j])] = LastFired(j)
          /\ LastFired(j) < rec.now

\* a call in which rules match and none is eligible leaves the table alone
C23_NoneEligible ==
    /\ rec.mode = "configured"
    /\ \E i \in Rules : Matching(i)
    /\ EligibleRules = {}
    /\ rec.pre.last_triggered # <<>>
    /\ last_triggered = rec.pre.last_triggered

----------------------------------------------------------------------------
(* The three timestamps of the fallback mode.  last_fallback_call is the    *)
(* last input call a fallback branch made and saw return; rec.last_call is  *)
(* what it was before the call of the record.                               *)

\* the cooldown class of an input call of the fallback table
ClassOf(call) ==
    CASE call.fn = "click" -> "click"
      [] call.fn = "scroll" -> "scroll"
      [] OTHER -> "dynamic"

\* the timestamp of a class before and after the call, and its cooldown
StampBefore(class) ==
    CASE class = "click" -> rec.pre.last_click_time
      [] class = "scroll" -> rec.pre.last_scroll_time
      [] OTHER -> rec.pre.last_dynamic_time

StampAfter(class) ==
    CASE class = "click" -> last_click_time
      [] class = "scroll" -> last_scroll_time
      [] OTHER -> last_dynamic_time

CooldownOf(class) ==
    CASE class = "click" -> click_cooldown
      [] class = "scroll" -> scroll_cooldown
      [] OTHER -> FallbackDynamicCooldown

\* C24: in fallback mode the two clicks share one timestamp, the two scrolls
\* another and the six dynamic gestures a third.  A call that fires stamps the
\* timestamp of its class with its time, whichever member of the class it is, and
\* nothing else changes that timestamp; so the timestamp of a class is the time
\* its last call fired, and no call of the class, the same member or another, is
\* issued earlier than that time plus the class's cooldown.
C24_SharedTimestamps ==
    rec.mode = "fallback" =>
        /\ \A k \in DOMAIN rec.calls :
              rec.now >= StampBefore(ClassOf(rec.calls[k])) + CooldownOf(ClassOf(rec.calls[k]))
        /\ (rec.calls # <<>> /\ ~rec.raised) =>
              /\ StampAfter(ClassOf(rec.calls[1])) = rec.now
              /\ last_fallback_call = rec.calls
        /\ (rec.calls = <<>> \/ rec.raised) =>
              /\ \A class \in {"click", "scroll", "dynamic"} :
                    StampAfter(class) = StampBefore(class)
              /\ last_fallback_call = rec.last_call
        /\ \A class \in {"click", "scroll", "dynamic"} :
              (rec.calls = <<>> \/ ClassOf(rec.calls[1]) # class)
                  => StampAfter(class) = StampBefore(class)
        /\ rec.last_call # <<>> =>
              LET class == ClassOf(rec.last_call[1]) IN
              /\ StampBefore(class) > 0
              /\ rec.now < StampBefore(class) + CooldownOf(class)
                    => \A k \in DOMAIN rec.calls : ClassOf(rec.calls[k]) # class

\* the last call that fired is the left click, and LEFT PINCH asks for the right
\* click before the click cooldown is over: no click is issued
C24_Witness ==
    /\ rec.mode = "fallback"
    /\ rec.last_call = << Call("click", << "left" >>, 0) >>
    /\ NameOf(rec.gestures, "LEFT") = "PINCH"
    /\ NameOf(rec.gestures, "RIGHT") # "PINCH"
    /\ rec.now > rec.pre.last_click_time
    /\ rec.now < rec.pre.last_click_time + click_cooldown
    /\ rec.calls = <<>>

\* the same the other way round: a right click holds back the left click
C24_RightHoldsLeft ==
    /\ rec.mode = "fallback"
    /\ rec.last_call = << Call("click", << "right" >>, 0) >>
    /\ NameOf(rec.gestures, "RIGHT") = "PINCH"
    /\ rec.now > rec.pre.last_click_time
    /\ rec.now < rec.pre.last_click_time + click_cooldown
    /\ rec.calls = <<>>

\* a scroll up holds back the scroll down
C24_ScrollShared ==
    /\ rec.mode = "fallback"
    /\ rec.last_call = << Call("scroll", <<>>, scroll_amount) >>
    /\ FirstRow = 4
    /\ rec.now > rec.pre.last_scroll_time
    /\ rec.now < rec.pre.last_scroll_time + scroll_cooldown
    /\ rec.calls = <<>>

\* a swipe holds back a PUSH
C24_DynamicShared ==
    /\ rec.mode = "fallback"
    /\ rec.last_call = << DynamicCall("SWIPE_LEFT") >>
    /\ FirstRow = 6
    /\ NameOf(rec.gestures, "RIGHT") = "PUSH"
    /\ rec.now > rec.pre.last_dynamic_time
    /\ rec.now < rec.pre.last_dynamic_time + FallbackDynamicCooldown
    /\ rec.calls = <<>>

----------------------------------------------------------------------------
(* The recognizer while a hand is away *)

\* whether the dynamic classifier has a candidate for the window w, by the
\* displacement from its oldest sample to its newest, the average speed of all
\* its samples and the time between the oldest and the newest
WindowYields(w) ==
    /\ Len(w) >= 6
    /\ LET first == w[1]
           last == w[Len(w)]
           dx == Abs(last.position.x - first.position.x)
           dy == Abs(last.position.y - first.position.y)
           dz == Abs(last.position.z - first.position.z)
       IN
       /\ ~ (/\ SumSpeed(w) \div Len(w) < 800
             /\ last.timestamp_ms - first.timestamp_ms < 120)
       /\ \/ dx > 120 /\ dx > dy
          \/ dy > 120 /\ dy > dx
          \/ dz > 45

\* the places k of the window w where sample k + 1 came more than max_stale_ms
\* after sample k: the hand was away in between, long enough for MotionEstimator
\* to purge its side
Absences(w) ==
    {k \in 1 .. Len(w) - 1 : w[k + 1].timestamp_ms - w[k].timestamp_ms > 250}

\* C25: a detect_for_frame call whose frame does not hold a side leaves the
\* history of that side as it was and returns no candidate for it; and the
\* dynamic candidate of a hand of the frame is the one of the whole window of its
\* side, the samples from before an absence included: the displacement is taken
\* from the oldest sample kept, however long ago the hand was last seen.
C25_AbsenceKeepsWindow ==
    g_rec.called =>
        /\ \A side \in {"RIGHT", "LEFT"} :
              HandsOf(g_rec.hands, side) = <<>> =>
                  /\ side \in DOMAIN g_history <=> side \in DOMAIN g_rec.pre_history
                  /\ Get(g_history, side, <<>>) = Get(g_rec.pre_history, side, <<>>)
                  /\ side \notin DOMAIN g_rec.output
        /\ \A i \in DOMAIN g_rec.dynamics :
              g_rec.dynamics[i] # <<>>
                  <=> WindowYields(LastItems(Arrived(g_rec.hands[i].side), history_size))

\* the right hand is back after an absence, at rest at another place (speed 0, as
\* a cold start gives it): its window still holds a sample from before the
\* absence, fewer than 6 from after it, all at the new place, and the classifier
\* returns a swipe measured from the old sample
C25_Witness ==
    /\ g_rec.called
    /\ Len(g_rec.hands) = 1
    /\ g_rec.hands[1].side = "RIGHT"
    /\ LET w == g_history["RIGHT"] IN
       /\ Absences(w) # {}
       /\ Len(w) - MaxOf(Absences(w)) < 6
       /\ w[1].position # w[Len(w)].position
       /\ w[MaxOf(Absences(w)) + 1].position = w[Len(w)].position
       /\ w[MaxOf(Absences(w)) + 1].speed = 0
    /\ g_rec.dynamics[1] # <<>>
    /\ g_rec.dynamics[1][1].name \in {"SWIPE_LEFT", "SWIPE_RIGHT"}
    /\ "RIGHT" \in DOMAIN g_rec.output

\* the frame shows the left hand only: the right hand's window stays, and the
\* dict holds nothing for RIGHT
C25_RightAway ==
    /\ g_rec.called
    /\ HandsOf(g_rec.hands, "RIGHT") = <<>>
    /\ Get(g_rec.pre_history, "RIGHT", <<>>) # <<>>
    /\ g_history["RIGHT"] = g_rec.pre_history["RIGHT"]
    /\ "RIGHT" \notin DOMAIN g_rec.output

----------------------------------------------------------------------------
(* Keys and classes that have never fired.  The clock of the model starts   *)
(* at 0, so the first calls come at readings below the cooldowns.           *)

\* the rules that match in the call and whose key has never fired
NeverFiredMatching == {i \in Rules : Matching(i) /\ ~FiredBefore(i)}

\* the class of the fallback row of the call has never fired: its timestamp is
\* the 0 it was built with (a firing stamps a time of at least the cooldown)
ClassNeverFired == ClassOfCall # "none" /\ StampBefore(ClassOfCall) = 0

\* C26: a key or class that has never fired passes its cooldown test exactly when
\* the clock reading is at least its cooldown, as if it had fired at time 0.  In
\* configured mode, when the only matching rule has never fired, the call executes
\* nothing if now is less than the rule's cooldown and executes the rule
\* otherwise; when every matching rule has never fired, an action is executed
\* exactly when now has reached the cooldown of one of them.  In fallback mode a
\* class that has never fired makes its call exactly when now is at least the
\* class's cooldown.
C26_NeverFiredIsZero ==
    /\ rec.mode = "configured" =>
          /\ \A i \in Rules :
                (i \in NeverFiredMatching /\ \A j \in Rules \ {i} : ~Matching(j)) =>
                    IF rec.now < RuleCooldown(mappings[i])
                    THEN rec.executed = <<>> /\ rec.calls = <<>>
                    ELSE ExecutedRule(i)
          /\ (\A i \in Rules : Matching(i) => ~FiredBefore(i)) =>
                (rec.executed # <<>>
                    <=> \E i \in NeverFiredMatching : rec.now >= RuleCooldown(mappings[i]))
    /\ (rec.mode = "fallback" /\ ClassNeverFired) =>
          (rec.calls # <<>> <=> rec.now >= CooldownOf(ClassOfCall))

\* the first request of the only matching rule, at a clock reading after 0 and
\* below its cooldown: nothing is executed although the key has never fired
C26_Witness ==
    /\ rec.mode = "configured"
    /\ \E i \in NeverFiredMatching :
          /\ \A j \in Rules \ {i} : ~Matching(j)
          /\ rec.now > 0
          /\ rec.now < RuleCooldown(mappings[i])
          /\ rec.executed = <<>>
          /\ last_triggered = rec.pre.last_triggered

\* the first request at a clock reading equal to the cooldown is executed
C26_FirstFiring ==
    /\ rec.mode = "configured"
    /\ \E i \in NeverFiredMatching :
          /\ \A j \in Rules \ {i} : ~Matching(j)
          /\ rec.now = RuleCooldown(mappings[i])
          /\ ExecutedRule(i)
          /\ ~rec.raised

\* the first PINCH of the fallback mode below the click cooldown: no click
C26_FallbackSuppressed ==
    /\ rec.mode = "fallback"
    /\ ClassNeverFired
    /\ ClassOfCall = "click"
    /\ rec.now > 0
    /\ rec.now < click_cooldown
    /\ rec.calls = <<>>

\* the first PINCH of the fallback mode at the click cooldown: the click is made
C26_FallbackFirstFiring ==
    /\ rec.mode = "fallback"
    /\ ClassNeverFired
    /\ ClassOfCall = "click"
    /\ rec.now = click_cooldown
    /\ rec.calls # <<>>

====
